---- MODULE Spec2Model ----
(***************************************************************************)
(* Verification model of the shopify-sync catalog replica: the products    *)
(* table and its upsert, the product webhooks, bulk sync, the paginated    *)
(* fetches, reconciliation and the reconciliation triggers; and of the     *)
(* webhook subscription manager: the webhooks table, the remote            *)
(* subscriptions, register_webhooks, sync_webhooks and delete_webhook.     *)
(*                                                                         *)
(* Conventions.                                                            *)
(*  - Python None / SQL NULL is the empty tuple; a present value x is the  *)
(*    one-element tuple <<x>>; an ISO-8601 string for second t is the      *)
(*    pair <<"iso", t>>, and the datetime parsed from it is <<t>>.         *)
(*  - A dict is a record; dict.get(k) is Get(d, k).                        *)
(*  - The content of field f of a remote product at remote updated_at = t *)
(*    is written <<f, t>>.                                                 *)
(*  - Every handler is a coroutine on one event loop: it can be            *)
(*    interleaved with other handlers only at an await of a remote call.   *)
(*    The code between two awaits is one action.                           *)
(*  - app.models.ShopifyStore (imported by the routers) is the Merchant    *)
(*    class of models.py.  Product.is_deleted and Product.deleted_at are   *)
(*    used by every module but are not declared in models.py; they are     *)
(*    modelled as columns of the products table, is_deleted defaulting     *)
(*    to 0 (IsDeletedDefault).  Webhook.store_id, which the webhook        *)
(*    manager filters on and fills, is the column models.py declares as    *)
(*    the foreign key to the store's row.                                  *)
(*  - A session whose statement or commit has raised refuses every later   *)
(*    statement until it is rolled back.                                   *)
(***************************************************************************)
EXTENDS Integers, Sequences, FiniteSets, TLC

VARIABLES
    merchants,   \* the merchants table: row id -> row
    remote,      \* remote catalog: product id -> None | <<updated_at>>
    sent,        \* product webhook notifications the remote has emitted
    products,    \* the products table: a set of rows
    runs,        \* reconcile_products calls in flight, by caller
    bulk,        \* fetch_all_products_from_shopify call in flight
    ret,         \* what the step just taken returned to its caller
    now,         \* wall clock / database now(), in seconds
    webhooks,    \* the webhooks table: a set of rows
    subscriptions, \* remote webhook subscriptions: a set of records
    calls,       \* webhook manager calls in flight, by function
    oauth,       \* the complete_oauth call in flight and its background task
    scheduler    \* the module global scheduler of services/scheduler.py

vars == <<merchants, remote, sent, products, runs, bulk, ret, now,
          webhooks, subscriptions, calls, oauth, scheduler>>

\* The state of onboarding and of the process's scheduler.
appvars == <<oauth, scheduler>>

\* The state of the webhook subscription manager.
hookvars == <<webhooks, subscriptions, calls>>

----------------------------------------------------------------------------
(* Bounds of the model *)

NumProducts == 2      \* remote product ids are 1..NumProducts
NumMerchants == 1     \* merchant row ids are 1..NumMerchants
MaxTime == 3          \* largest remote updated_at
MaxNow == 1           \* largest clock value
MaxBatch == 2         \* longest list handed to sync_products by a caller
limit == 2            \* page size of the paginated fetches (250 in the source)
NumTenants == 3

ProductIds == 1..NumProducts
MerchantIds == 1..NumMerchants

\* The product that changes remotely during a run and that callers hand to
\* sync_products; the other products of the remote catalog are static.
HotIds == {1}

None == <<>>

\* No register_webhooks, sync_webhooks or delete_webhook call is in flight.
ManagerCalls == {"register", "sync", "delete"}

NoHookCalls == [f \in ManagerCalls |-> [pc |-> "idle"]]

Get(d, k) == IF k \in DOMAIN d THEN d[k] ELSE None

Max(a, b) == IF a >= b THEN a ELSE b

Abs(x) == IF x < 0 THEN -x ELSE x

----------------------------------------------------------------------------
(* The merchants table and the stored credential (models.py,              *)
(* utils/encryption.py)                                                    *)

\* The Fernet key of the process (ENCRYPTION_KEY), and the key the
\* process had before a rotation.
ENCRYPTION_KEY == "key"

RotatedKey == "key before rotation"

\* A Fernet token: the plaintext sealed under a key.
Fernet(key, plaintext) ==
    [cipher |-> "fernet", key |-> key, plaintext |-> plaintext]

\* A stored value that is no Fernet token of any key.
Corrupted == [cipher |-> "corrupted", key |-> "", plaintext |-> ""]

\* TokenEncryption.encrypt
encrypt(plaintext) == Fernet(ENCRYPTION_KEY, plaintext)

\* TokenEncryption.decrypt: raises ValueError unless the text is a token
\* sealed under the key of the process.
decrypt(encrypted_text) ==
    IF encrypted_text.cipher = "fernet"
       /\ encrypted_text.key = ENCRYPTION_KEY
    THEN [raised |-> FALSE, value |-> <<encrypted_text.plaintext>>]
    ELSE [raised |-> TRUE, value |-> None]

\* Faulty variant of access_token: the ValueError of decrypt is not caught
\* and the stored text is handed out.
access_token_Raw(merchant) ==
    IF merchant.access_token = None THEN None
    ELSE <<merchant.access_token[1].plaintext>>

\* Merchant.access_token, the hybrid property over the column
\* "access_token": None when the column is empty or decrypt raises.
access_token(merchant) ==
    IF merchant.access_token = None THEN None
    ELSE IF decrypt(merchant.access_token[1]).raised THEN None
    ELSE decrypt(merchant.access_token[1]).value

\* The setter of Merchant.access_token: the column gets the encrypted
\* value, or NULL for an empty one.
access_token_setter(merchant, value) ==
    [merchant EXCEPT !.access_token =
        IF value = None THEN None ELSE <<encrypt(value[1])>>]

\* A row of the merchants table.  updated_at has onupdate=func.now() and no
\* default: it is NULL until the row's first UPDATE.
Merchant(merchant_id, shop_domain, token, scope, is_active, updated_at) ==
    [merchant_id |-> merchant_id, shop_domain |-> shop_domain,
     access_token |-> token, scope |-> scope, is_active |-> is_active,
     updated_at |-> updated_at]

\* The row of a merchant that completed OAuth at second 0.
Onboarded(m, is_active, token) ==
    Merchant(m, m, token, <<"scopes">>, is_active, <<0>>)

----------------------------------------------------------------------------
(* Remote catalog (Shopify) *)

\* The shop a remote product belongs to; remote ids are global.
ShopOf(i) == ((i - 1) % NumMerchants) + 1

\* Full remote representation of product i at remote updated_at t.
FullProduct(i, t) ==
    [id |-> <<i>>, title |-> <<"title", t>>, vendor |-> <<"vendor", t>>,
     product_type |-> <<"product_type", t>>, handle |-> <<"handle", t>>,
     status |-> <<"active">>, created_at |-> <<"iso", 1>>,
     updated_at |-> <<"iso", t>>, published_at |-> <<"iso", 1>>,
     variants |-> <<"variants", t>>]

\* The ?fields=... projection of a remote product.
Fields(p, ks) == [k \in (DOMAIN p) \cap ks |-> p[k]]

ReconcileFields == {"id", "title", "updated_at"}

\* Ascending sequence of the elements of a finite set of integers.
RECURSIVE SortedSeq(_)
SortedSeq(S) ==
    IF S = {} THEN <<>>
    ELSE LET m == CHOOSE x \in S : \A y \in S : x <= y
         IN <<m>> \o SortedSeq(S \ {m})

Take(s, n) == SubSeq(s, 1, IF Len(s) < n THEN Len(s) ELSE n)

\* .first() of a query without ORDER BY: any of the rows, or None.
First(rows) == IF rows = {} THEN {None} ELSE {<<r>> : r \in rows}

----------------------------------------------------------------------------
(* The products table and upsert_product *)

IsDeletedDefault == 0

parse_datetime(dt_str) ==
    IF dt_str = None THEN None
    ELSE IF Len(dt_str) = 2 /\ dt_str[1] = "iso" THEN <<dt_str[2]>>
    ELSE None

parse_shopify_product(product_data) ==
    [shopify_product_id |-> Get(product_data, "id"),
     title              |-> Get(product_data, "title"),
     vendor             |-> Get(product_data, "vendor"),
     product_type       |-> Get(product_data, "product_type"),
     handle             |-> Get(product_data, "handle"),
     status             |-> Get(product_data, "status"),
     shopify_created_at |-> parse_datetime(Get(product_data, "created_at")),
     shopify_updated_at |-> parse_datetime(Get(product_data, "updated_at")),
     published_at       |-> parse_datetime(Get(product_data, "published_at")),
     raw_data           |-> product_data]

\* The row INSERT creates: the parsed values plus the column defaults.
InsertedRow(parsed, merchant_id, t) ==
    [shopify_product_id |-> parsed.shopify_product_id,
     merchant_id        |-> merchant_id,
     title              |-> parsed.title,
     vendor             |-> parsed.vendor,
     product_type       |-> parsed.product_type,
     handle             |-> parsed.handle,
     status             |-> parsed.status,
     shopify_created_at |-> parsed.shopify_created_at,
     shopify_updated_at |-> parsed.shopify_updated_at,
     published_at       |-> parsed.published_at,
     raw_data           |-> parsed.raw_data,
     synced_at          |-> <<t>>,
     created_at         |-> <<t>>,
     updated_at         |-> None,
     is_deleted         |-> IsDeletedDefault,
     deleted_at         |-> None]

\* Faulty variant of OnConflictUpdate: the set_ clause assigns the title to vendor.
OnConflictUpdate_VendorFromTitle(row, parsed, t) ==
    [row EXCEPT !.title = parsed.title,
                !.vendor = parsed.title,
                !.product_type = parsed.product_type,
                !.handle = parsed.handle,
                !.status = parsed.status,
                !.shopify_created_at = parsed.shopify_created_at,
                !.shopify_updated_at = parsed.shopify_updated_at,
                !.published_at = parsed.published_at,
                !.raw_data = parsed.raw_data,
                !.synced_at = <<t>>,
                !.updated_at = <<t>>]

\* Faulty variant of OnConflictUpdate: the set_ clause also makes the row
\* active again.
OnConflictUpdate_Reactivate(row, parsed, t) ==
    [row EXCEPT !.title = parsed.title,
                !.vendor = parsed.vendor,
                !.product_type = parsed.product_type,
                !.handle = parsed.handle,
                !.status = parsed.status,
                !.shopify_created_at = parsed.shopify_created_at,
                !.shopify_updated_at = parsed.shopify_updated_at,
                !.published_at = parsed.published_at,
                !.raw_data = parsed.raw_data,
                !.synced_at = <<t>>,
                !.updated_at = <<t>>,
                !.is_deleted = 0,
                !.deleted_at = None]

\* The set_ clause of ON CONFLICT (shopify_product_id) DO UPDATE.
OnConflictUpdate(row, parsed, t) ==
    [row EXCEPT !.title = parsed.title,
                !.vendor = parsed.vendor,
                !.product_type = parsed.product_type,
                !.handle = parsed.handle,
                !.status = parsed.status,
                !.shopify_created_at = parsed.shopify_created_at,
                !.shopify_updated_at = parsed.shopify_updated_at,
                !.published_at = parsed.published_at,
                !.raw_data = parsed.raw_data,
                !.synced_at = <<t>>,
                !.updated_at = <<t>>]

\* Faulty variant of upsert_product: a plain INSERT, without the ON CONFLICT clause
\* and its unique index.
upsert_product_PlainInsert(table, merchant_id, product_data, t) ==
    LET parsed == parse_shopify_product(product_data)
    IN  IF parsed.shopify_product_id = None
        THEN [ok |-> FALSE, table |-> table]
        ELSE [ok |-> TRUE,
              table |-> table \cup {InsertedRow(parsed, merchant_id, t)}]

\* upsert_product on table at database time t.  ok = FALSE is the
\* exception db.execute raises (NOT NULL violation of shopify_product_id);
\* the statement then changes nothing.
upsert_product(table, merchant_id, product_data, t) ==
    LET parsed == parse_shopify_product(product_data)
        conflict == {r \in table :
                        r.shopify_product_id = parsed.shopify_product_id}
    IN  IF parsed.shopify_product_id = None
        THEN [ok |-> FALSE, table |-> table]
        ELSE IF conflict = {}
        THEN [ok |-> TRUE,
              table |-> table \cup {InsertedRow(parsed, merchant_id, t)}]
        ELSE [ok |-> TRUE,
              table |-> (table \ conflict) \cup
                        {OnConflictUpdate(r, parsed, t) : r \in conflict}]

\* The ORM soft delete: is_deleted, status, deleted_at are assigned and the
\* flush fires the onupdate defaults of synced_at and updated_at.
SoftDeleted(row, t) ==
    [row EXCEPT !.is_deleted = 1,
                !.status = <<"deleted">>,
                !.deleted_at = <<t>>,
                !.synced_at = <<t>>,
                !.updated_at = <<t>>]

\* Faulty variant of ActiveMerchantByDomain: the query has no is_active
\* filter.
ActiveMerchantByDomain_AnyStatus(d) ==
    {m \in MerchantIds : merchants[m].shop_domain = d}

\* db.query(Merchant).filter(shop_domain == d, is_active == 1).first()
ActiveMerchantByDomain(d) ==
    {m \in MerchantIds : merchants[m].shop_domain = d
                         /\ merchants[m].is_active = 1}

----------------------------------------------------------------------------
(* ret: what the step just taken returned to its caller *)

\* The step was not the return of an operation.
NoCall == [op |-> "none", args |-> None, result |-> None, again |-> FALSE]

\* The step was the return of operation op, called with args.
Returned(op, args, result) ==
    [op |-> op, args |-> args, result |-> result, again |-> FALSE]

----------------------------------------------------------------------------
(* Remote catalog changes; each emits its webhook notification *)

Notification(topic, i, body) ==
    [topic |-> topic, shop_domain |-> ShopOf(i), body |-> body]

RemoteCreate(i) ==
    /\ remote[i] = None
    /\ \A n \in sent : n.body.id # <<i>>
    /\ remote' = [remote EXCEPT ![i] = <<1>>]
    /\ sent' = sent \cup {Notification("products/create", i, FullProduct(i, 1))}
    /\ ret' = NoCall
    /\ UNCHANGED <<hookvars, appvars, merchants, products, runs, bulk, now>>

RemoteUpdate(i) ==
    /\ remote[i] # None
    /\ \E t \in (remote[i][1] + 1)..MaxTime :
         /\ t <= remote[i][1] + 2
         /\ remote' = [remote EXCEPT ![i] = <<t>>]
         /\ sent' = sent \cup
                    {Notification("products/update", i, FullProduct(i, t))}
    /\ ret' = NoCall
    /\ UNCHANGED <<hookvars, appvars, merchants, products, runs, bulk, now>>

RemoteDelete(i) ==
    /\ remote[i] # None
    /\ remote' = [remote EXCEPT ![i] = None]
    /\ sent' = sent \cup {Notification("products/delete", i, [id |-> <<i>>])}
    /\ ret' = NoCall
    /\ UNCHANGED <<hookvars, appvars, merchants, products, runs, bulk, now>>

Tick ==
    /\ now < MaxNow
    /\ now' = now + 1
    /\ ret' = NoCall
    /\ UNCHANGED <<hookvars, appvars, merchants, remote, sent, products, runs, bulk>>

----------------------------------------------------------------------------
(* Product webhooks (routers/webhooks.py) *)

\* product_create_webhook and product_update_webhook have the same body.
\* again records that the call found the table already holding what it
\* stores: the row of the id was a copy of this payload.

AlreadyStored(m, product_data) ==
    LET parsed == parse_shopify_product(product_data)
    IN  \E r \in products :
            /\ r.shopify_product_id = parsed.shopify_product_id
            /\ r.merchant_id = m
            /\ r.title = parsed.title
            /\ r.vendor = parsed.vendor
            /\ r.product_type = parsed.product_type
            /\ r.handle = parsed.handle
            /\ r.status = parsed.status
            /\ r.shopify_created_at = parsed.shopify_created_at
            /\ r.shopify_updated_at = parsed.shopify_updated_at
            /\ r.published_at = parsed.published_at
            /\ r.raw_data = parsed.raw_data

UpsertWebhook(op, n) ==
    LET ms == ActiveMerchantByDomain(n.shop_domain)
        args == [shop_domain |-> n.shop_domain, body |-> n.body]
    IN  IF ms = {}
        THEN /\ ret' = Returned(op, args, 404)
             /\ UNCHANGED products
        ELSE LET m == CHOOSE x \in ms : TRUE
                 res == upsert_product(products, m, n.body, now)
             IN  /\ products' = res.table
                 /\ ret' = [Returned(op, args, IF res.ok THEN 200 ELSE 500)
                               EXCEPT !.again = AlreadyStored(m, n.body)]

product_create_webhook(n) ==
    /\ n \in sent
    /\ n.topic = "products/create"
    /\ UpsertWebhook("product_create_webhook", n)
    /\ UNCHANGED <<hookvars, appvars, merchants, remote, sent, runs, bulk, now>>

product_update_webhook(n) ==
    /\ n \in sent
    /\ n.topic = "products/update"
    /\ UpsertWebhook("product_update_webhook", n)
    /\ UNCHANGED <<hookvars, appvars, merchants, remote, sent, runs, bulk, now>>

product_delete_webhook(n) ==
    /\ n \in sent
    /\ n.topic = "products/delete"
    /\ LET ms == ActiveMerchantByDomain(n.shop_domain)
           args == [shop_domain |-> n.shop_domain, body |-> n.body]
       IN  IF ms = {}
           THEN /\ ret' = Returned("product_delete_webhook", args, 404)
                /\ UNCHANGED products
           ELSE LET m == CHOOSE x \in ms : TRUE
                    found == {r \in products :
                                 /\ r.shopify_product_id = Get(n.body, "id")
                                 /\ r.merchant_id = m}
                IN  /\ products' = (products \ found) \cup
                                   {SoftDeleted(r, now) : r \in found}
                    /\ ret' = Returned("product_delete_webhook", args, 200)
    /\ UNCHANGED <<hookvars, appvars, merchants, remote, sent, runs, bulk, now>>

----------------------------------------------------------------------------
(* Signed requests (utils/webhook_verification.py, routers/webhooks.py)    *)

\* settings.SHOPIFY_API_SECRET, and a secret that is not the app's.
SHOPIFY_API_SECRET == "app secret"

OtherSecret == "not the app secret"

\* hmac.new(key, msg, hashlib.sha256).digest(): the digest is determined by
\* the key and the message, and no two pairs share one.
hmac_sha256(key, msg) == [key |-> key, msg |-> msg]

\* The hexadecimal and the base64 text of a digest.
hexdigest(digest) == [encoding |-> "hex", digest |-> digest]

b64encode(digest) == [encoding |-> "base64", digest |-> digest]

\* The raw body of a request carrying a JSON payload, and json.loads.
dumps(payload) == [json |-> payload]

loads(body) == body.json

\* Faulty variant of verify_webhook: any header that is present passes.
verify_webhook_AnyHeader(data, hmac_header) == hmac_header # None

\* verify_webhook(data, hmac_header)
verify_webhook(data, hmac_header) ==
    IF hmac_header = None THEN FALSE
    ELSE b64encode(hmac_sha256(SHOPIFY_API_SECRET, data)) = hmac_header[1]

\* A POST to a webhook endpoint: the path, the headers X-Shopify-Topic,
\* X-Shopify-Shop-Domain and X-Shopify-Hmac-SHA256, and the raw body.
WebhookRequest(path, n, hmac_header) ==
    [path |-> path, topic |-> n.topic, shop_domain |-> n.shop_domain,
     body |-> dumps(n.body), hmac |-> hmac_header]

\* The dependency verify_shopify_webhook: 401 without a signature header or
\* with one verify_webhook rejects; otherwise the decoded body, the shop
\* and the topic are handed to the handler.
verify_shopify_webhook(request) ==
    IF request.hmac = None
    THEN [status_code |-> 401, detail |-> "Missing webhook signature"]
    ELSE IF ~verify_webhook(request.body, request.hmac)
    THEN [status_code |-> 401, detail |-> "Invalid webhook signature"]
    ELSE [status_code |-> 200, detail |-> ""]

\* The row of a product after the bulk UPDATE of shop/redact.
Redacted(row, t) ==
    [row EXCEPT !.is_deleted = 1,
                !.status = <<"redacted">>,
                !.deleted_at = <<t>>,
                !.synced_at = <<t>>,
                !.updated_at = <<t>>]

\* shop_redact_webhook, and the shop/redact branch of
\* compliance_webhook_router: the products of the shop are marked deleted,
\* its webhooks inactive, the merchant inactive and its credential cleared.
shop_redact_webhook(n) ==
    /\ n.topic = "shop/redact"
    /\ \E found \in First({m \in DOMAIN merchants :
                              merchants[m].shop_domain = n.shop_domain}) :
          IF found = None
          THEN UNCHANGED <<merchants, products, webhooks>>
          ELSE LET m == found[1]
               IN  /\ products' =
                          {IF r.merchant_id = m THEN Redacted(r, now) ELSE r :
                              r \in products}
                   /\ webhooks' =
                          {IF r.store_id = m THEN [r EXCEPT !.is_active = 0]
                                             ELSE r : r \in webhooks}
                   /\ merchants' = [merchants EXCEPT ![m] =
                          [access_token_setter(merchants[m], None)
                              EXCEPT !.is_active = 0,
                                     !.updated_at = <<now>>]]
    /\ ret' = Returned("shop_redact_webhook",
                       [shop_domain |-> n.shop_domain, body |-> n.body], 200)
    /\ UNCHANGED <<subscriptions, calls, appvars, remote, sent, runs, bulk,
                   now>>

\* The shop/redact notification of a shop.
ShopRedact(shop) ==
    [topic |-> "shop/redact", shop_domain |-> shop,
     body |-> [shop_id |-> <<shop>>, shop_domain |-> <<shop>>]]

\* The endpoint of a topic.
Endpoint(topic) ==
    CASE topic = "products/create" -> "/api/webhooks/products/create"
      [] topic = "products/update" -> "/api/webhooks/products/update"
      [] topic = "products/delete" -> "/api/webhooks/products/delete"
      [] topic = "shop/redact" -> "/api/webhooks/shop/redact"

\* A request arrives at a webhook endpoint: the dependency runs first and
\* the handler only after it returned.
InboundWebhook(request) ==
    LET n == [topic |-> request.topic, shop_domain |-> request.shop_domain,
              body |-> loads(request.body)]
    IN  IF verify_shopify_webhook(request).status_code = 401
        THEN /\ ret' = Returned("verify_shopify_webhook", request, 401)
             /\ UNCHANGED <<hookvars, appvars, merchants, remote, sent,
                            products, runs, bulk, now>>
        ELSE CASE request.topic = "products/create" ->
                     product_create_webhook(n)
               [] request.topic = "products/update" ->
                     product_update_webhook(n)
               [] request.topic = "products/delete" ->
                     product_delete_webhook(n)
               [] request.topic = "shop/redact" ->
                     shop_redact_webhook(n)

\* What can stand in the signature header of a request with body data:
\* nothing, the signature Shopify computes, the same digest in hexadecimal,
\* the signature under another secret, the signature of another body.
Signature(data) == b64encode(hmac_sha256(SHOPIFY_API_SECRET, data))

BadSignatures(data) ==
    {None,
     <<hexdigest(hmac_sha256(SHOPIFY_API_SECRET, data))>>,
     <<b64encode(hmac_sha256(OtherSecret, data))>>,
     <<b64encode(hmac_sha256(SHOPIFY_API_SECRET, dumps([id |-> None])))>>}

\* The notifications Shopify has sent or can send at any time, and the ones
\* someone else makes up.
Genuine == sent \cup {ShopRedact(merchants[m].shop_domain) :
                         m \in DOMAIN merchants}

Forged ==
    {Notification("products/delete", i, [id |-> <<i>>]) : i \in ProductIds}
    \cup {Notification("products/create", i, FullProduct(i, MaxTime)) :
             i \in ProductIds}

\* The requests that do not carry the signature of their body.
BadRequests ==
    UNION {{WebhookRequest(Endpoint(n.topic), n, h) :
               h \in BadSignatures(dumps(n.body))} :
           n \in Genuine \cup Forged}

\* The requests of Shopify.
GoodRequests ==
    {WebhookRequest(Endpoint(n.topic), n, <<Signature(dumps(n.body))>>) :
        n \in Genuine}

----------------------------------------------------------------------------
(* sync_products (services/product_sync.py) *)

ZeroStats ==
    [synced_count |-> 0, created_count |-> 0, updated_count |-> 0,
     failed_count |-> 0]

\* One iteration of the for loop of sync_products.  s is the loop state:
\* the table, the statistics, and whether the session's transaction is in
\* the failed state that a raising db.execute leaves behind (upsert_product
\* neither commits nor rolls back when execute raises, and PostgreSQL then
\* rejects every statement of the session until a rollback).
SyncOne(s, merchant_id, product_data, t) ==
    IF s.failed_tx
    THEN \* db.query(...).first() raises; caught, counted
         [s EXCEPT !.stats.failed_count = @ + 1]
    ELSE LET is_update == \E r \in s.table :
                              r.shopify_product_id = Get(product_data, "id")
             res == upsert_product(s.table, merchant_id, product_data, t)
         IN  IF res.ok
             THEN [table |-> res.table,
                   failed_tx |-> FALSE,
                   stats |-> [s.stats EXCEPT
                       !.synced_count = @ + 1,
                       !.updated_count = @ + (IF is_update THEN 1 ELSE 0),
                       !.created_count = @ + (IF is_update THEN 0 ELSE 1)]]
             ELSE [table |-> s.table,
                   failed_tx |-> TRUE,
                   stats |-> [s.stats EXCEPT !.failed_count = @ + 1]]

RECURSIVE SyncLoop(_, _, _, _, _)
SyncLoop(s, merchant_id, products_data, k, t) ==
    IF k > Len(products_data) THEN s
    ELSE SyncLoop(SyncOne(s, merchant_id, products_data[k], t),
                  merchant_id, products_data, k + 1, t)

\* sync_products called on a session whose transaction state is failed_tx.
sync_products(table, failed_tx, merchant_id, products_data, t) ==
    SyncLoop([table |-> table, failed_tx |-> failed_tx, stats |-> ZeroStats],
             merchant_id, products_data, 1, t)

\* Items a caller can hand to sync_products: remote products, whole or
\* projected by a ?fields= list (routers/shopify_data.py get_products); a
\* projection without "id" is the malformed item.
ItemShapes == {{"id", "title", "vendor", "product_type", "handle", "status",
                "created_at", "updated_at", "published_at", "variants"},
               {"title", "updated_at"}}

BatchItems == {Fields(FullProduct(i, 1), ks) : i \in HotIds, ks \in ItemShapes}

BatchInputs == UNION {[1..n -> BatchItems] : n \in 1..MaxBatch}

\* A caller applies sync_products to a list on a fresh session.
SyncProductsCall(m, products_data) ==
    /\ merchants[m].is_active = 1
    /\ LET s == sync_products(products, FALSE, m, products_data, now)
       IN  /\ products' = s.table
           /\ ret' = Returned("sync_products",
                              [merchant |-> m, products_data |-> products_data],
                              s.stats)
    /\ UNCHANGED <<hookvars, appvars, merchants, remote, sent, runs, bulk, now>>

----------------------------------------------------------------------------
(* Paginated remote fetch: GET products.json?limit=&since_id= *)

\* The page the remote serves: the shop's products with id > since_id, in
\* ascending id order, at most lim of them, projected on fields.
RemotePage(shop, since_id, lim, fields) ==
    LET ids == {i \in ProductIds :
                   ShopOf(i) = shop /\ remote[i] # None /\ i > since_id}
        page == Take(SortedSeq(ids), lim)
    IN  [k \in 1..Len(page) |->
            Fields(FullProduct(page[k], remote[page[k]][1]), fields)]

AllFields == DOMAIN FullProduct(1, 1)

\* get_merchant_from_header: the merchant is active and has a credential.
Authorized(m) ==
    /\ merchants[m].is_active = 1
    /\ access_token(merchants[m]) # None

----------------------------------------------------------------------------
(* fetch_all_products_from_shopify (services/product_sync.py), reached    *)
(* through force_full_resync and the initial sync after OAuth             *)

NoBulk == [pc |-> "idle"]

InitialTotalStats ==
    [status |-> "completed", total_products |-> 0, synced_count |-> 0,
     created_count |-> 0, updated_count |-> 0, failed_count |-> 0,
     pages_fetched |-> 0, error |-> None]

\* The "Set final status" block after the loop.
FinalStatus(ts) ==
    [ts EXCEPT !.status =
        IF ts.failed_count > 0 /\ ts.synced_count = 0 THEN "failed"
        ELSE IF ts.failed_count > 0 THEN "partial"
        ELSE "completed"]

\* except httpx.HTTPError inside the loop.
OnHTTPError(ts) ==
    [ts EXCEPT !.status = IF ts.synced_count > 0 THEN "partial" ELSE "failed",
               !.error = <<"HTTP error">>]

\* The outer except Exception.
OnException(ts) ==
    [ts EXCEPT !.status = "failed", !.error = <<"exception">>]

force_full_resync_endpoint(m) ==
    /\ bulk.pc = "idle"
    /\ Authorized(m)
    /\ bulk' = [pc |-> "request", merchant |-> m, since_id |-> 0,
                total_stats |-> InitialTotalStats, failed_tx |-> FALSE,
                resp |-> None]
    /\ ret' = NoCall
    /\ UNCHANGED <<hookvars, appvars, merchants, remote, sent, products, runs, now>>

\* The remote answers the pending client.get: a page, an HTTP error
\* (transport error or raise_for_status), or a body response.json() rejects.
FetchAllServe ==
    /\ bulk.pc = "request"
    /\ \E kind \in {"ok", "http_error", "bad_json"} :
         bulk' = [bulk EXCEPT
            !.pc = "response",
            !.resp = [kind |-> kind,
                      products |->
                          IF kind = "ok"
                          THEN RemotePage(merchants[bulk.merchant].shop_domain,
                                          bulk.since_id, limit, AllFields)
                          ELSE <<>>]]
    /\ ret' = NoCall
    /\ UNCHANGED <<hookvars, appvars, merchants, remote, sent, products, runs, now>>

\* Faulty variant of NextSinceId: the cursor stays where it is.
NextSinceId_Keep(products_page, since_id) == since_id

\* since_id = products[-1]['id'], the cursor of the next page request of
\* both fetch loops.
NextSinceId(products_page, since_id) ==
    products_page[Len(products_page)].id[1]

FetchAllReturn(ts) ==
    /\ bulk' = NoBulk
    /\ ret' = Returned("fetch_all_products_from_shopify",
                       [merchant |-> bulk.merchant], ts)

\* The coroutine resumes with the response and runs up to its next await.
FetchAllPage ==
    /\ bulk.pc = "response"
    /\ LET ts == bulk.total_stats
           page == bulk.resp.products
       IN  CASE bulk.resp.kind = "http_error" ->
                  /\ FetchAllReturn(FinalStatus(OnHTTPError(ts)))
                  /\ UNCHANGED products
             [] bulk.resp.kind = "bad_json" ->
                  /\ FetchAllReturn(OnException(ts))
                  /\ UNCHANGED products
             [] bulk.resp.kind = "ok" /\ page = <<>> ->
                  /\ FetchAllReturn(FinalStatus(
                         [ts EXCEPT !.pages_fetched = @ + 1]))
                  /\ UNCHANGED products
             [] bulk.resp.kind = "ok" /\ page # <<>> ->
                  LET s == sync_products(products, bulk.failed_tx,
                                         bulk.merchant, page, now)
                      ts2 == [ts EXCEPT
                          !.pages_fetched = @ + 1,
                          !.synced_count = @ + s.stats.synced_count,
                          !.created_count = @ + s.stats.created_count,
                          !.updated_count = @ + s.stats.updated_count,
                          !.failed_count = @ + s.stats.failed_count,
                          !.total_products = @ + Len(page)]
                  IN  /\ products' = s.table
                      /\ IF Len(page) < limit
                         THEN FetchAllReturn(FinalStatus(ts2))
                         ELSE /\ bulk' = [bulk EXCEPT
                                    !.pc = "request",
                                    !.since_id =
                                        NextSinceId(page, bulk.since_id),
                                    !.total_stats = ts2,
                                    !.failed_tx = s.failed_tx,
                                    !.resp = None]
                              /\ ret' = NoCall
    /\ UNCHANGED <<hookvars, appvars, merchants, remote, sent, runs, now>>

----------------------------------------------------------------------------
(* reconcile_products (services/product_reconciliation.py) *)

InitialResults ==
    [status |-> "completed", products_in_shopify |-> 0,
     products_in_database |-> 0,
     missing_in_db |-> 0, missing_in_db_product_ids |-> {},
     deleted_in_shopify |-> 0, deleted_in_shopify_product_ids |-> {},
     out_of_sync |-> 0, out_of_sync_product_ids |-> {},
     synced_count |-> 0, marked_deleted_count |-> 0, error |-> None]

\* shopify_products is None: the fetch failed.
FetchFailedResults ==
    [InitialResults EXCEPT !.status = "failed",
                           !.error = <<"Failed to fetch products from Shopify">>]

\* {p['id']: p for p in shopify_products}: a later entry replaces an earlier.
ProductMap(shopify_products) ==
    LET n == Len(shopify_products)
    IN  [i \in {shopify_products[k].id : k \in 1..n} |->
            shopify_products[CHOOSE k \in 1..n :
                /\ shopify_products[k].id = i
                /\ \A j \in (k + 1)..n : shopify_products[j].id # i]]

\* The database as a call of reconcile_products meets it: budget is the
\* number of upsert statements it still executes before one raises
\* (Healthy: none raises); failed_tx says a statement has raised in the
\* session, whose transaction is then aborted: no handler rolls back, so
\* every later statement of the session raises too; expired says a commit
\* has expired the loaded rows, so that reading an attribute queries again.
Healthy == NumProducts + 1

DbState(budget) == [budget |-> budget, failed_tx |-> FALSE, expired |-> FALSE]

\* upsert_product inside a try/except of reconcile_products.
UpsertDb(table, db, merchant_id, product_data, t) ==
    IF db.failed_tx \/ db.budget = 0
    THEN [ok |-> FALSE, table |-> table, db |-> [db EXCEPT !.failed_tx = TRUE]]
    ELSE LET res == upsert_product(table, merchant_id, product_data, t)
         IN  IF res.ok
             THEN [ok |-> TRUE, table |-> res.table,
                   db |-> [db EXCEPT !.budget = @ - 1, !.expired = TRUE]]
             ELSE [ok |-> FALSE, table |-> table,
                   db |-> [db EXCEPT !.failed_tx = TRUE]]

\* A for loop of upsert_product over the ids of ids, each in its own try.
\* acc = [table, synced_count, db].
RECURSIVE UpsertEach(_, _, _, _, _)
UpsertEach(acc, ids, product_map, merchant_id, t) ==
    IF ids = {} THEN acc
    ELSE LET i == CHOOSE x \in ids : TRUE
             res == UpsertDb(acc.table, acc.db, merchant_id, product_map[i], t)
         IN  UpsertEach([table |-> res.table,
                         synced_count |-> acc.synced_count
                                          + (IF res.ok THEN 1 ELSE 0),
                         db |-> res.db],
                        ids \ {i}, product_map, merchant_id, t)

\* Faulty variant of IsOutOfSync: a difference of one second is out of
\* sync too.
IsOutOfSync_AtOne(shopify_product, db_product) ==
    LET shopify_updated_str == Get(shopify_product, "updated_at")
        shopify_updated == parse_datetime(shopify_updated_str)
    IN  /\ shopify_updated_str # None
        /\ shopify_updated # None
        /\ db_product.shopify_updated_at # None
        /\ Abs(shopify_updated[1] - db_product.shopify_updated_at[1]) >= 1

\* Step 5's test on one id of the intersection.
IsOutOfSync(shopify_product, db_product) ==
    LET shopify_updated_str == Get(shopify_product, "updated_at")
        shopify_updated == parse_datetime(shopify_updated_str)
    IN  /\ shopify_updated_str # None
        /\ shopify_updated # None
        /\ db_product.shopify_updated_at # None
        /\ Abs(shopify_updated[1] - db_product.shopify_updated_at[1]) > 1

\* The "Set final status" block.
ReconcileStatus(r) ==
    IF r.synced_count = 0 /\ r.marked_deleted_count = 0
    THEN IF r.missing_in_db = 0 /\ r.out_of_sync = 0
         THEN "completed" ELSE "failed"
    ELSE "completed"

\* Step 5's loop over the ids of the intersection.  acc = [table,
\* synced_count, db, out_of_sync, raised]; reading db_product's attribute
\* raises out of the loop when the rows are expired and the transaction is
\* aborted.
RECURSIVE Step5(_, _, _, _, _, _)
Step5(acc, ids, shopify_product_map, db_product_map, merchant_id, t) ==
    IF ids = {} \/ acc.raised THEN acc
    ELSE LET i == CHOOSE x \in ids : TRUE
             shopify_product == shopify_product_map[i]
             reads_row == /\ Get(shopify_product, "updated_at") # None
                          /\ parse_datetime(shopify_product.updated_at) # None
             rest == ids \ {i}
         IN  IF reads_row /\ acc.db.failed_tx /\ acc.db.expired
             THEN [acc EXCEPT !.raised = TRUE]
             ELSE IF ~IsOutOfSync(shopify_product, db_product_map[i])
             THEN Step5(acc, rest, shopify_product_map, db_product_map,
                        merchant_id, t)
             ELSE LET res == UpsertDb(acc.table, acc.db, merchant_id,
                                      shopify_product, t)
                  IN  Step5([table |-> res.table,
                             synced_count |-> acc.synced_count
                                              + (IF res.ok THEN 1 ELSE 0),
                             db |-> res.db,
                             out_of_sync |-> acc.out_of_sync \cup {i},
                             raised |-> FALSE],
                            rest, shopify_product_map, db_product_map,
                            merchant_id, t)

\* The outer except of reconcile_products.
OnReconcileException(r) ==
    [r EXCEPT !.status = "failed", !.error = <<"exception">>]

\* Faulty variant of ActiveRowsOf: the query has no merchant_id filter.
ActiveRowsOf_AllTenants(table, merchant_id) ==
    {r \in table : r.is_deleted = 0}

\* Step 2: db.query(Product).filter(merchant_id == .., is_deleted == 0)
ActiveRowsOf(table, merchant_id) ==
    {r \in table : r.merchant_id = merchant_id /\ r.is_deleted = 0}

\* Steps 2 to 5 and the final status, on the fetched list shopify_products,
\* with a database that raises after budget upsert statements.  No await
\* occurs in them: they are one atomic step of the event loop.
ReconcileSteps(table, merchant_id, shopify_products, mark_deleted, t, budget) ==
    LET shopify_product_map == ProductMap(shopify_products)
        shopify_product_ids == DOMAIN shopify_product_map
        db_products == ActiveRowsOf(table, merchant_id)
        db_product_ids == {r.shopify_product_id : r \in db_products}
        db_product_map == [i \in db_product_ids |->
                              CHOOSE r \in db_products :
                                  r.shopify_product_id = i]
        \* Step 3
        missing_in_db == shopify_product_ids \ db_product_ids
        step3 == UpsertEach([table |-> table, synced_count |-> 0,
                             db |-> DbState(budget)],
                            missing_in_db, shopify_product_map, merchant_id, t)
        counts3 == [InitialResults EXCEPT
                      !.products_in_shopify = Len(shopify_products),
                      !.products_in_database = Cardinality(db_products),
                      !.missing_in_db = Cardinality(missing_in_db),
                      !.missing_in_db_product_ids = missing_in_db,
                      !.synced_count = step3.synced_count]
        \* Step 4
        deleted_in_shopify == db_product_ids \ shopify_product_ids
        marked == IF mark_deleted
                  THEN {db_product_map[i] : i \in deleted_in_shopify}
                  ELSE {}
        counts4 == [counts3 EXCEPT
                      !.deleted_in_shopify = Cardinality(deleted_in_shopify),
                      !.deleted_in_shopify_product_ids = deleted_in_shopify,
                      !.marked_deleted_count = Cardinality(marked)]
        commit_raises == marked # {} /\ step3.db.failed_tx
        table4 == (step3.table \ marked) \cup {SoftDeleted(r, t) : r \in marked}
        db4 == IF marked # {} THEN [step3.db EXCEPT !.expired = TRUE]
               ELSE step3.db
        \* Step 5
        step5 == Step5([table |-> table4, synced_count |-> step3.synced_count,
                        db |-> db4, out_of_sync |-> {}, raised |-> FALSE],
                       shopify_product_ids \cap db_product_ids,
                       shopify_product_map, db_product_map, merchant_id, t)
        counts == [counts4 EXCEPT
                      !.out_of_sync = Cardinality(step5.out_of_sync),
                      !.out_of_sync_product_ids = step5.out_of_sync,
                      !.synced_count = step5.synced_count]
    IN  IF commit_raises
        THEN [table |-> step3.table, results |-> OnReconcileException(counts4)]
        ELSE IF step5.raised
        THEN [table |-> step5.table,
              results |-> OnReconcileException(
                              [counts4 EXCEPT
                                  !.synced_count = step5.synced_count])]
        ELSE [table |-> step5.table,
              results |-> [counts EXCEPT !.status = ReconcileStatus(counts)]]

\* Steps 2 to 5 with a database that executes every statement.
Reconcile(table, merchant_id, shopify_products, mark_deleted, t) ==
    ReconcileSteps(table, merchant_id, shopify_products, mark_deleted, t,
                   Healthy)

----------------------------------------------------------------------------
(* The callers of reconcile_products: the on-demand endpoint               *)
(* (routers/sync.py), the scheduler's recurring job and the manual trigger *)
(* (services/scheduler.py).  One call in flight per caller is modelled.    *)

Callers == {"endpoint", "job", "manual"}

NoRun == [pc |-> "idle"]

\* A caller that is not inside reconcile_products: asleep between two
\* merchants of an all-merchant run, or about to return.  attempted lists
\* the merchants the caller has run reconcile_products for, each with the
\* status of its report.
Between(pc, queue, sel, attempted) ==
    [pc |-> pc, merchant |-> 0, mark_deleted |-> FALSE, since_id |-> 0,
     all_products |-> <<>>, fetch_failed |-> FALSE,
     queue |-> queue, sel |-> sel, attempted |-> attempted]

\* reconcile_products has been called and awaits its first page.
Fetching(m, mark_deleted, queue, sel, attempted) ==
    [pc |-> "fetch", merchant |-> m, mark_deleted |-> mark_deleted,
     since_id |-> 0, all_products |-> <<>>, fetch_failed |-> FALSE,
     queue |-> queue, sel |-> sel, attempted |-> attempted]

InFlight(c) == runs[c].pc \in {"fetch", "apply"}

reconcile_products_endpoint(m, mark_deleted) ==
    /\ runs["endpoint"].pc = "idle"
    /\ Authorized(m)
    /\ runs' = [runs EXCEPT !["endpoint"] =
                   Fetching(m, mark_deleted, <<>>, <<m>>, <<>>)]
    /\ ret' = NoCall
    /\ UNCHANGED <<hookvars, appvars, merchants, remote, sent, products, bulk, now>>

\* Faulty variant of ScheduledMarkDeleted: scheduled runs mark deletions.
ScheduledMarkDeleted_True == TRUE

\* The mark_deleted argument run_daily_reconciliation_for_merchant passes
\* to reconcile_products.
ScheduledMarkDeleted == FALSE

\* The for loop of run_daily_reconciliation_for_all_merchants from the
\* merchants of queue on, up to its next await or its end: a merchant
\* without a credential is skipped; run_daily_reconciliation_for_merchant
\* returns at once for one that is no longer active (the loop then sleeps).
RECURSIVE NextStop(_)
NextStop(queue) ==
    IF queue = <<>> THEN [kind |-> "done", m |-> 0, rest |-> <<>>]
    ELSE IF access_token(merchants[Head(queue)]) = None
    THEN NextStop(Tail(queue))
    ELSE IF Authorized(Head(queue))
    THEN [kind |-> "run", m |-> Head(queue), rest |-> Tail(queue)]
    ELSE [kind |-> "sleep", m |-> 0, rest |-> Tail(queue)]

\* Faulty variant of ManualResult: the status of the reports is passed on.
ManualResult_FromReports(attempted) ==
    [status |-> IF \E k \in 1..Len(attempted) :
                       attempted[k].status = "failed"
                THEN "failed" ELSE "completed"]

\* What trigger_manual_reconciliation returns once the awaited run has
\* returned: the run returns nothing, and has caught and logged every
\* exception and every failed report.
ManualResult(attempted) == [status |-> "completed"]

\* The return of trigger_manual_reconciliation, or of the job, which
\* returns nothing; ret records the merchants attempted.
CallerDone(c, sel, attempted) ==
    /\ runs' = [runs EXCEPT ![c] = NoRun]
    /\ IF c = "manual"
       THEN ret' = Returned("trigger_manual_reconciliation",
                            [merchant_id |-> sel, attempted |-> attempted],
                            ManualResult(attempted))
       ELSE ret' = Returned("run_daily_reconciliation_for_all_merchants",
                            [merchant_id |-> sel, attempted |-> attempted],
                            None)

Advance(c, queue, attempted) ==
    LET stop == NextStop(queue)
    IN  CASE stop.kind = "run" ->
               /\ runs' = [runs EXCEPT ![c] =
                              Fetching(stop.m, ScheduledMarkDeleted,
                                       stop.rest, None, attempted)]
               /\ ret' = NoCall
          [] stop.kind = "sleep" ->
               /\ runs' = [runs EXCEPT ![c] =
                              Between("sleep", stop.rest, None, attempted)]
               /\ ret' = NoCall
          [] stop.kind = "done" -> CallerDone(c, None, attempted)

ActiveMerchants ==
    SortedSeq({m \in DOMAIN merchants : merchants[m].is_active = 1})

\* The scheduler fires 'daily_reconciliation'; max_instances=1 skips the
\* fire while the previous instance of the job is running.
JobFire ==
    /\ runs["job"].pc = "idle"
    /\ NextStop(ActiveMerchants).kind # "done"
    /\ Advance("job", ActiveMerchants, <<>>)
    /\ UNCHANGED <<hookvars, appvars, merchants, remote, sent, products, bulk, now>>

\* trigger_manual_reconciliation_endpoint without merchant_id.
ManualTriggerAll ==
    /\ runs["manual"].pc = "idle"
    /\ Advance("manual", ActiveMerchants, <<>>)
    /\ UNCHANGED <<hookvars, appvars, merchants, remote, sent, products, bulk, now>>

\* trigger_manual_reconciliation_endpoint with merchant_id: 404 unless the
\* merchant is active; run_daily_reconciliation_for_merchant returns at
\* once unless it has a credential.
ManualTriggerOne(m) ==
    /\ runs["manual"].pc = "idle"
    /\ merchants[m].is_active = 1
    /\ IF Authorized(m)
       THEN /\ runs' = [runs EXCEPT !["manual"] =
                           Fetching(m, ScheduledMarkDeleted, <<>>, <<m>>,
                                    <<>>)]
            /\ ret' = NoCall
       ELSE CallerDone("manual", <<m>>, <<>>)
    /\ UNCHANGED <<hookvars, appvars, merchants, remote, sent, products, bulk, now>>

\* asyncio.sleep(5) is over, or the single-merchant trigger returns.
RunContinue(c) ==
    /\ runs[c].pc \in {"sleep", "return"}
    /\ IF runs[c].pc = "return"
       THEN CallerDone(c, runs[c].sel, runs[c].attempted)
       ELSE Advance(c, runs[c].queue, runs[c].attempted)
    /\ UNCHANGED <<hookvars, appvars, merchants, remote, sent, products, bulk, now>>

\* Faulty variant of RestAfter: a failed report ends the loop.
RestAfter_StopOnFailure(results, queue) ==
    IF results.status = "failed" THEN <<>> ELSE queue

\* The merchants run_daily_reconciliation_for_all_merchants still has to
\* visit after run_daily_reconciliation_for_merchant returned: the report
\* is logged, an exception is caught, and the for loop goes on.
RestAfter(results, queue) == queue

\* reconcile_products returns results to caller c.  Beside the arguments
\* of the call, ret records the caller, whether a client.get of its fetch raised and
\* how many products the fetch had accumulated.
ReconcileReturn(c, results, fetch_failed) ==
    /\ ret' = Returned("reconcile_products",
                       [caller |-> c,
                        merchant |-> runs[c].merchant,
                        mark_deleted |-> runs[c].mark_deleted,
                        fetch_failed |-> fetch_failed,
                        fetched |-> Len(runs[c].all_products)],
                       results)
    /\ LET attempted == Append(runs[c].attempted,
                                [merchant |-> runs[c].merchant,
                                 status |-> results.status])
       IN  runs' = [runs EXCEPT ![c] =
              IF c = "endpoint" THEN NoRun
              ELSE IF runs[c].sel = None
              THEN Between("sleep", RestAfter(results, runs[c].queue), None,
                           attempted)
              ELSE Between("return", <<>>, runs[c].sel, attempted)]

\* Faulty variant of FetchOnException: the except branch returns the
\* products accumulated so far.
FetchOnException_ReturnsPartial(all_products) == <<all_products>>

\* The except branch of fetch_all_products_from_shopify_for_reconciliation:
\* what the fetch returns when a client.get, raise_for_status or json()
\* raised after all_products had been accumulated.
FetchOnException(all_products) == None

\* One client.get of fetch_all_products_from_shopify_for_reconciliation is
\* answered: an exception makes the fetch return None and reconcile_products
\* return 'failed'; a page is appended and ends the loop when it is empty
\* or shorter than limit.
ReconcileFetch(c) ==
    /\ runs[c].pc = "fetch"
    /\ \E ok \in BOOLEAN :
         IF ~ok
         THEN LET shopify_products == FetchOnException(runs[c].all_products)
              IN  IF shopify_products = None
                  THEN ReconcileReturn(c, FetchFailedResults, TRUE)
                  ELSE /\ runs' = [runs EXCEPT ![c] = [@ EXCEPT
                             !.all_products = shopify_products[1],
                             !.fetch_failed = TRUE,
                             !.pc = "apply"]]
                       /\ ret' = NoCall
         ELSE LET page == RemotePage(merchants[runs[c].merchant].shop_domain,
                                     runs[c].since_id, limit, ReconcileFields)
              IN  /\ runs' = [runs EXCEPT ![c] = [@ EXCEPT
                        !.all_products = @ \o page,
                        !.pc = IF Len(page) < limit THEN "apply" ELSE "fetch",
                        !.since_id = IF Len(page) < limit THEN @
                                     ELSE NextSinceId(page, @)]]
                  /\ ret' = NoCall
    /\ UNCHANGED <<hookvars, appvars, merchants, remote, sent, products, bulk, now>>

\* The coroutine resumes after the last page: steps 2 to 5.
ReconcileApply(c) ==
    /\ runs[c].pc = "apply"
    /\ \E res \in {Reconcile(products, runs[c].merchant,
                             runs[c].all_products, runs[c].mark_deleted,
                             now)} :
          /\ products' = res.table
          /\ ReconcileReturn(c, res.results, runs[c].fetch_failed)
    /\ UNCHANGED <<hookvars, appvars, merchants, remote, sent, bulk, now>>

\* Steps 2 to 5 when the database raises at one of the upsert statements.
ReconcileApplyDbError(c) ==
    /\ runs[c].pc = "apply"
    /\ \E budget \in 0..(NumProducts - 1) :
          \E res \in {ReconcileSteps(products, runs[c].merchant,
                                     runs[c].all_products,
                                     runs[c].mark_deleted, now, budget)} :
             /\ products' = res.table
             /\ ReconcileReturn(c, res.results, runs[c].fetch_failed)
    /\ UNCHANGED <<hookvars, appvars, merchants, remote, sent, bulk, now>>

----------------------------------------------------------------------------
(* Webhook subscription manager (services/webhook_manager.py) and its      *)
(* endpoints (routers/webhooks.py).  The manager filters and fills         *)
(* Webhook.store_id, the id of the store's row.  A remote subscription is  *)
(* a record [shop, topic, address, live]; its id is its position in        *)
(* subscriptions, so that the remote never issues an id twice.             *)

NumTopics == 2   \* topics of WEBHOOK_CONFIG taken into the model
MaxSubs == 3     \* the remote issues subscription ids 1..MaxSubs

TopicNames ==
    <<"products/create", "products/update", "products/delete",
      "customers/data_request", "customers/redact", "shop/redact">>

app_url == "app_url"

\* WEBHOOK_CONFIG, each address formatted with the app URL.
WEBHOOK_CONFIG ==
    [k \in 1..NumTopics |->
        [topic |-> TopicNames[k], address |-> <<app_url, TopicNames[k]>>,
         format |-> "json"]]

\* The addresses a subscription of a topic can carry: the one the app
\* registers, or another one (an earlier app URL).
Addresses(topic) == {<<app_url, topic>>, <<"elsewhere", topic>>}

\* ---- the remote's webhook API ----

LiveIds(shop) ==
    {i \in 1..Len(subscriptions) :
        subscriptions[i].live /\ subscriptions[i].shop = shop}

\* The JSON representation of subscription i.
AsWebhook(i) ==
    [id |-> i, topic |-> subscriptions[i].topic,
     address |-> subscriptions[i].address]

\* The remote refuses (422) a second subscription of a shop with the same
\* topic and address.
Taken(shop, topic, address, self) ==
    \E i \in LiveIds(shop) \ {self} :
        /\ subscriptions[i].topic = topic
        /\ subscriptions[i].address = address

\* A subscription is created by another client of the shop's API.
SubscriptionCreatedOutside(shop, topic, address) ==
    /\ Len(subscriptions) < MaxSubs
    /\ ~Taken(shop, topic, address, 0)
    /\ subscriptions' = Append(subscriptions,
           [shop |-> shop, topic |-> topic, address |-> address,
            live |-> TRUE])
    /\ ret' = NoCall
    /\ UNCHANGED <<webhooks, calls, appvars, merchants, remote, sent, products,
                   runs, bulk, now>>

\* A subscription is removed by another client, or by the remote itself.
SubscriptionDeletedOutside(i) ==
    /\ i \in 1..Len(subscriptions)
    /\ subscriptions[i].live
    /\ subscriptions' = [subscriptions EXCEPT ![i].live = FALSE]
    /\ ret' = NoCall
    /\ UNCHANGED <<webhooks, calls, appvars, merchants, remote, sent, products,
                   runs, bulk, now>>

\* A request of the manager to the remote, and the remote's answer.
Request(kind, shop, id, topic, address) ==
    [kind |-> kind, shop |-> shop, id |-> id, topic |-> topic,
     address |-> address]

NoRequest == Request("none", 0, 0, "", None)

Response(kind, body) == [kind |-> kind, body |-> body]

NoResponse == Response("none", None)

\* The remote answers the request of manager call f: any request can fail
\* (raise_for_status or a transport error raises in the helper); otherwise
\* GET webhooks/{id}.json returns the subscription or 404, GET webhooks.json
\* lists the shop's subscriptions by id, POST creates one under a new id,
\* PUT changes the address, DELETE removes the subscription.
RemoteServe(f) ==
    /\ calls[f].pc = "request"
    /\ LET req == calls[f].req
           live == req.id \in LiveIds(req.shop)
           Respond(resp) ==
               calls' = [calls EXCEPT ![f].pc = "response", ![f].resp = resp]
       IN  \/ /\ Respond(Response("error", None))
              /\ UNCHANGED subscriptions
           \/ /\ req.kind = "get"
              /\ Respond(IF live THEN Response("ok", <<AsWebhook(req.id)>>)
                                 ELSE Response("not_found", None))
              /\ UNCHANGED subscriptions
           \/ /\ req.kind = "list"
              /\ Respond(Response("ok",
                     [k \in 1..Cardinality(LiveIds(req.shop)) |->
                         AsWebhook(SortedSeq(LiveIds(req.shop))[k])]))
              /\ UNCHANGED subscriptions
           \/ /\ req.kind = "post"
              /\ Len(subscriptions) < MaxSubs
              /\ ~Taken(req.shop, req.topic, req.address, 0)
              /\ subscriptions' = Append(subscriptions,
                     [shop |-> req.shop, topic |-> req.topic,
                      address |-> req.address, live |-> TRUE])
              /\ Respond(Response("ok", Len(subscriptions) + 1))
           \/ /\ req.kind = "put"
              /\ live
              /\ ~Taken(req.shop, subscriptions[req.id].topic, req.address,
                        req.id)
              /\ subscriptions' =
                     [subscriptions EXCEPT ![req.id].address = req.address]
              /\ Respond(Response("ok", <<AsWebhook(req.id)>>))
           \/ /\ req.kind = "delete"
              /\ live
              /\ subscriptions' = [subscriptions EXCEPT ![req.id].live = FALSE]
              /\ Respond(Response("ok", None))
           \/ /\ req.kind \in {"put", "delete"}
              /\ ~live
              /\ Respond(Response("not_found", None))
              /\ UNCHANGED subscriptions
    /\ ret' = NoCall
    /\ UNCHANGED <<webhooks, appvars, merchants, remote, sent, products, runs, bulk,
                   now>>

\* ---- the webhooks table ----

\* db.query(Webhook).filter(store_id == .., topic == .., is_active == 1)
ActiveWebhooks(table, store_id, topic) ==
    {r \in table : r.store_id = store_id /\ r.topic = topic
                   /\ r.is_active = 1}

RowById(table, id) == CHOOSE r \in table : r.id = id

\* db.add(Webhook(...)); db.commit(): shopify_webhook_id is unique, so the
\* INSERT raises when a row, active or not, already holds the id.
InsertWebhook(table, store_id, shopify_webhook_id, topic, address) ==
    IF \E r \in table : r.shopify_webhook_id = shopify_webhook_id
    THEN [ok |-> FALSE, table |-> table, id |-> 0]
    ELSE [ok |-> TRUE, id |-> Cardinality(table) + 1,
          table |-> table \cup
              {[id |-> Cardinality(table) + 1, store_id |-> store_id,
                shopify_webhook_id |-> shopify_webhook_id, topic |-> topic,
                address |-> address, is_active |-> 1]}]

\* Faulty variant of Deactivate: DELETE FROM webhooks WHERE id IN ids
Deactivate_Remove(table, ids) == {r \in table : r.id \notin ids}

\* UPDATE webhooks SET is_active = 0 WHERE id IN ids
Deactivate(table, ids) ==
    {IF r.id \in ids THEN [r EXCEPT !.is_active = 0] ELSE r : r \in table}

\* UPDATE webhooks SET address = .. WHERE id = ..
SetAddress(table, id, address) ==
    {IF r.id = id THEN [r EXCEPT !.address = address] ELSE r : r \in table}

\* Faulty variant of SetRemoteId: the old row is retired and a new row
\* is written for the new remote id.
SetRemoteId_NewRow(table, id, shopify_webhook_id, address) ==
    [ok |-> TRUE,
     table |-> Deactivate(table, {id}) \cup
        {[id |-> Cardinality(table) + 1,
          store_id |-> RowById(table, id).store_id,
          shopify_webhook_id |-> shopify_webhook_id,
          topic |-> RowById(table, id).topic,
          address |-> address, is_active |-> 1]}]

\* UPDATE webhooks SET shopify_webhook_id = .., address = .. WHERE id = ..
\* (is_active is assigned the value the row was loaded with, which emits
\* no column).  The UPDATE raises when another row holds the id.
SetRemoteId(table, id, shopify_webhook_id, address) ==
    IF \E r \in table : r.id # id /\ r.shopify_webhook_id = shopify_webhook_id
    THEN [ok |-> FALSE, table |-> table]
    ELSE [ok |-> TRUE,
          table |-> {IF r.id = id
                     THEN [r EXCEPT !.shopify_webhook_id = shopify_webhook_id,
                                    !.address = address]
                     ELSE r : r \in table}]

\* ---- register_webhooks ----

Success(topic, action, webhook_id) ==
    [topic |-> topic, action |-> action, webhook_id |-> webhook_id,
     status |-> "success"]

\* The result the except clause of the loop appends.
Failure(topic) ==
    [topic |-> topic, action |-> "failed", status |-> "error",
     error |-> <<"exception">>]

\* Faulty variant of Matching: the remote's list is not searched.
Matching_None(shopify_webhooks, topic) == <<>>

\* get_existing_webhook: the webhooks of the remote's list that carry the
\* topic, in the order of the list; the first one is returned.
Matching(shopify_webhooks, topic) ==
    SelectSeq(shopify_webhooks, LAMBDA w : w.topic = topic)

\* What handling the response of a remote call leads to: the next remote
\* call of the same topic (await), or the topic's result; raised tells
\* where the exception came from ("remote" call or "local" write).
Outcome(table, await, stage, req, db_webhook, seen, result, raised) ==
    [table |-> table, await |-> await, stage |-> stage, req |-> req,
     db_webhook |-> db_webhook, seen |-> seen, result |-> result,
     raised |-> raised]

\* The body of the loop of register_webhooks from the point where the
\* remote call of c.stage has answered, up to the next await or the append
\* of the topic's result.  commit_ok tells whether the database accepts the
\* commit of this stretch.
HandleResponse(c, table, commit_ok) ==
    LET webhook == WEBHOOK_CONFIG[c.k]
        resp == c.resp
        db_webhook == RowById(table, c.db_webhook[1].id)
        Await(tbl, stage, req, row, seen) ==
            Outcome(tbl, TRUE, stage, req, row, seen, None, "none")
        Raise(kind, seen) ==
            Outcome(table, FALSE, "done", NoRequest, c.db_webhook, seen,
                    Failure(webhook.topic), kind)
        Commit(ok, tbl, seen, action, webhook_id) ==
            IF ok /\ commit_ok
            THEN Outcome(tbl, FALSE, "done", NoRequest, c.db_webhook, seen,
                         Success(webhook.topic, action, webhook_id), "none")
            ELSE Raise("local", seen)
    IN  CASE c.stage = "get_existing_webhook_by_id" ->
               IF resp.kind = "error"
               THEN Raise("remote", c.seen)
               ELSE IF resp.kind = "not_found"
               THEN Await(table, "recreate",
                          Request("post", c.shop, 0, webhook.topic,
                                  webhook.address), c.db_webhook, None)
               ELSE IF resp.body[1].address # webhook.address
               THEN Await(table, "update",
                          Request("put", c.shop,
                                  db_webhook.shopify_webhook_id,
                                  webhook.topic, webhook.address),
                          c.db_webhook, resp.body)
               ELSE Commit(TRUE, table, resp.body, "already_exists",
                           db_webhook.shopify_webhook_id)
          [] c.stage = "update" ->
               IF resp.kind # "ok"
               THEN Raise("remote", c.seen)
               ELSE Commit(TRUE,
                           SetAddress(table, db_webhook.id, webhook.address),
                           c.seen, "updated", db_webhook.shopify_webhook_id)
          [] c.stage = "recreate" ->
               IF resp.kind # "ok"
               THEN Raise("remote", c.seen)
               ELSE LET upd == SetRemoteId(table, db_webhook.id, resp.body,
                                           webhook.address)
                    IN  Commit(upd.ok, upd.table, c.seen, "recreated",
                               resp.body)
          [] c.stage = "get_existing_webhook" ->
               IF resp.kind # "ok"
               THEN Raise("remote", c.seen)
               ELSE LET matching == Matching(resp.body, webhook.topic)
                    IN  IF matching # <<>>
                        THEN LET existing == matching[1]
                                 ins == InsertWebhook(table, c.merchant,
                                            existing.id, webhook.topic,
                                            existing.address)
                             IN  IF ~(ins.ok /\ commit_ok)
                                 THEN Raise("local", <<resp.body>>)
                                 ELSE IF existing.address # webhook.address
                                 THEN Await(ins.table, "update_adopted",
                                          Request("put", c.shop, existing.id,
                                                  webhook.topic,
                                                  webhook.address),
                                          <<RowById(ins.table, ins.id)>>,
                                          <<resp.body>>)
                                 ELSE Commit(TRUE, ins.table, <<resp.body>>,
                                             "already_exists", existing.id)
                        ELSE Await(table, "create",
                                   Request("post", c.shop, 0, webhook.topic,
                                           webhook.address), None,
                                   <<resp.body>>)
          [] c.stage = "update_adopted" ->
               IF resp.kind # "ok"
               THEN Raise("remote", c.seen)
               ELSE Commit(TRUE,
                           SetAddress(table, db_webhook.id, webhook.address),
                           c.seen, "updated", db_webhook.shopify_webhook_id)
          [] c.stage = "create" ->
               IF resp.kind # "ok"
               THEN Raise("remote", c.seen)
               ELSE LET ins == InsertWebhook(table, c.merchant, resp.body,
                                             webhook.topic, webhook.address)
                    IN  Commit(ins.ok, ins.table, c.seen, "created",
                               resp.body)

\* The loop reaches topic k: the table is queried for the topic's active
\* row, found, and the first remote call of the topic is sent.  results
\* and trace are those of the topics before; trace keeps, for each topic
\* handled, what the call saw and did.
StartTopic(m, k, found, results, trace, table) ==
    [pc |-> "request", merchant |-> m, shop |-> merchants[m].shop_domain,
     k |-> k, results |-> results, trace |-> trace, db_webhook |-> found,
     seen |-> None, posted |-> FALSE, before |-> table,
     stage |-> IF found # None THEN "get_existing_webhook_by_id"
                               ELSE "get_existing_webhook",
     req |-> IF found # None
             THEN Request("get", merchants[m].shop_domain,
                          found[1].shopify_webhook_id,
                          WEBHOOK_CONFIG[k].topic, None)
             ELSE Request("list", merchants[m].shop_domain, 0,
                          WEBHOOK_CONFIG[k].topic, None),
     resp |-> NoResponse]

\* POST /api/webhooks/register: the merchant is active and has a
\* credential; register_webhooks finds its store and enters the loop.
register_webhooks_endpoint(m) ==
    /\ calls["register"].pc = "idle"
    /\ Authorized(m)
    /\ \E found \in First(ActiveWebhooks(webhooks, m,
                                         WEBHOOK_CONFIG[1].topic)) :
          calls' = [calls EXCEPT !["register"] =
                       StartTopic(m, 1, found, <<>>, <<>>, webhooks)]
    /\ ret' = NoCall
    /\ UNCHANGED <<webhooks, subscriptions, appvars, merchants, remote, sent,
                   products, runs, bulk, now>>

\* What the trace keeps of a topic: the active row the query found; what
\* the remote answered to the first call of the topic (seen: the
\* subscription of the row's id, or the list of the shop's subscriptions;
\* None for a 404 or a failed call); whether a POST was sent; where an
\* exception came from; the table before and after the topic.
TraceEntry(c, h) ==
    [db_webhook |-> c.db_webhook, seen |-> h.seen, posted |-> c.posted,
     raised |-> h.raised, before |-> c.before, after |-> h.table]

\* A commit that raised leaves the session unusable, and the loop has no
\* rollback: the query of every later topic raises, and the except clause
\* appends the topic's failure.
SessionFailures(k) ==
    [j \in 1..(NumTopics - k) |-> Failure(WEBHOOK_CONFIG[k + j].topic)]

SessionTrace(k, table) ==
    [j \in 1..(NumTopics - k) |->
        [db_webhook |-> None, seen |-> None, posted |-> FALSE,
         raised |-> "session", before |-> table, after |-> table]]

\* The endpoint's except clause: raise HTTPException(status_code=500).
HTTPException(status_code) ==
    [status |-> "error", status_code |-> status_code]

----------------------------------------------------------------------------
(* OAuth completion (routers/oauth.py, services/shopify_oauth.py,          *)
(* utils/helpers.py).  One complete_oauth call is in flight at a time.     *)

TimestampWindow == 300    \* seconds a callback timestamp may differ
ReplayWindow == 60        \* seconds between two completions of a merchant

NoOAuth == [pc |-> "idle"]

\* The text of an integer, and a text int() raises ValueError for.
Digits(n) == [digits |-> TRUE, value |-> n]

NotDigits == [digits |-> FALSE, value |-> 0]

\* The shop parameter: a domain, bare or behind a scheme.
ShopText(scheme, domain) == [scheme |-> scheme, domain |-> domain]

\* sanitize_shop_domain: the scheme and the slashes around are dropped.
sanitize_shop_domain(shop_domain) == shop_domain.domain

\* urllib.parse.quote(str(value), safe='')
quote(value) == [quoted |-> value]

\* The keys a callback can carry beside hmac, as sorted() orders them.
SortedKeys == <<"code", "host", "shop", "state", "timestamp">>

\* "&".join(f"{key}={quote(str(value), safe='')}" for key, value in
\* sorted(params_copy.items()))
encoded_params(params_copy) ==
    LET keys == SelectSeq(SortedKeys, LAMBDA k : k \in DOMAIN params_copy)
    IN  [i \in 1..Len(keys) |-> <<keys[i], quote(params_copy[keys[i]])>>]

\* The hexadecimal HMAC-SHA256 of the canonical string under a secret.
Sign(secret, params_copy) ==
    hexdigest(hmac_sha256(secret, encoded_params(params_copy)))

\* Faulty variant of verify_hmac: a callback that carries an hmac passes.
verify_hmac_PresenceOnly(params) == "hmac" \in DOMAIN params

\* ShopifyOAuth.verify_hmac(params)
verify_hmac(params) ==
    IF "hmac" \notin DOMAIN params THEN FALSE
    ELSE Sign(SHOPIFY_API_SECRET,
              [k \in (DOMAIN params) \ {"hmac"} |-> params[k]]) = params.hmac

\* The body of POST /api/oauth/complete.
OAuthComplete(code, shop, merchant_id, hmac, timestamp, host) ==
    [code |-> code, shop |-> shop, merchant_id |-> merchant_id,
     hmac |-> hmac, timestamp |-> timestamp, host |-> host]

\* The params dict complete_oauth hands to verify_hmac: host only if given.
Params(oauth_data) ==
    IF oauth_data.host # None
    THEN [code |-> oauth_data.code, shop |-> oauth_data.shop,
          state |-> oauth_data.merchant_id, hmac |-> oauth_data.hmac,
          timestamp |-> oauth_data.timestamp, host |-> oauth_data.host[1]]
    ELSE [code |-> oauth_data.code, shop |-> oauth_data.shop,
          state |-> oauth_data.merchant_id, hmac |-> oauth_data.hmac,
          timestamp |-> oauth_data.timestamp]

\* The callback signed under secret, as the frontend forwards it.
Callback(secret, code, shop, state, timestamp, host) ==
    LET unsigned == OAuthComplete(code, shop, state, "", timestamp, host)
        query == [k \in (DOMAIN Params(unsigned)) \ {"hmac"} |->
                     Params(unsigned)[k]]
    IN  [unsigned EXCEPT !.hmac = Sign(secret, query)]

\* An error response of complete_oauth.
OAuthError(status_code, detail) ==
    [status |-> "error", status_code |-> status_code, detail |-> detail]

\* The arguments and the arrival time of the call, as ret records them.
OAuthArgs(oauth_data, received) ==
    [oauth_data |-> oauth_data, received |-> received]

\* Faulty variant of TimestampCheck: a timestamp exactly TimestampWindow
\* seconds away is expired too.
TimestampCheck_AtWindow(timestamp, t) ==
    IF ~timestamp.digits THEN "Invalid timestamp format"
    ELSE IF Abs(t - timestamp.value) >= TimestampWindow
    THEN "OAuth callback timestamp expired"
    ELSE "ok"

\* Lines 114-129: the timestamp is an integer within TimestampWindow
\* seconds of the clock, before or after.
TimestampCheck(timestamp, t) ==
    IF ~timestamp.digits THEN "Invalid timestamp format"
    ELSE IF Abs(t - timestamp.value) > TimestampWindow
    THEN "OAuth callback timestamp expired"
    ELSE "ok"

\* Faulty variant of RecentlyCompleted: no completion counts as a replay.
RecentlyCompleted_Never(merchant, t) == FALSE

\* Lines 162-165: the merchant is active, has a credential, and its row
\* was last updated less than ReplayWindow seconds ago.
RecentlyCompleted(merchant, t) ==
    /\ merchant.is_active = 1
    /\ access_token(merchant) # None
    /\ merchant.updated_at # None
    /\ t - merchant.updated_at[1] < ReplayWindow

\* db.query(ShopifyStore).filter((merchant_id == ..) | (shop_domain == ..))
MerchantsOf(merchant_id, shop_domain) ==
    {m \in DOMAIN merchants :
        \/ merchants[m].merchant_id = merchant_id
        \/ merchants[m].shop_domain = shop_domain}

\* The id the sequence of merchants.id gives the next inserted row.
NextMerchantId ==
    IF DOMAIN merchants = {} THEN 1
    ELSE (CHOOSE m \in DOMAIN merchants :
             \A k \in DOMAIN merchants : k <= m) + 1

\* complete_oauth from its first line to the await of the token exchange:
\* the timestamp check, the signature check, the lookup of the merchant,
\* the duplicate completion check, and the new or updated object in the
\* session (db.add and db.flush, or two assignments; nothing committed).
complete_oauth(oauth_data) ==
    /\ oauth.pc = "idle"
    /\ LET shop_domain == sanitize_shop_domain(oauth_data.shop)
           args == OAuthArgs(oauth_data, now)
           Reject(status_code, detail) ==
               /\ ret' = Returned("complete_oauth", args,
                                  OAuthError(status_code, detail))
               /\ UNCHANGED oauth
       IN  IF TimestampCheck(oauth_data.timestamp, now) # "ok"
           THEN Reject(400, TimestampCheck(oauth_data.timestamp, now))
           ELSE IF ~verify_hmac(Params(oauth_data))
           THEN Reject(400, "Invalid HMAC signature")
           ELSE \E found \in First(MerchantsOf(oauth_data.merchant_id,
                                               shop_domain)) :
                   IF found # None
                      /\ RecentlyCompleted(merchants[found[1]], now)
                   THEN Reject(409, "OAuth was recently completed")
                   ELSE /\ oauth' =
                             [pc |-> "exchange", args |-> args,
                              shop_domain |-> shop_domain,
                              created |-> (found = None),
                              id |-> IF found = None THEN NextMerchantId
                                                     ELSE found[1],
                              loaded |-> IF found = None
                                 THEN Merchant(oauth_data.merchant_id,
                                               shop_domain, None, None, 1,
                                               None)
                                 ELSE merchants[found[1]],
                              shop_name |-> None]
                        /\ ret' = NoCall
    /\ UNCHANGED <<hookvars, scheduler, merchants, remote, sent, products,
                   runs, bulk, now>>

\* What POST /admin/oauth/access_token can answer: the token and its
\* scope, a 400 for a code that is invalid or used, another failure.
TokenResponses ==
    {[kind |-> "ok", access_token |-> <<tok>>, scope |-> <<"scopes">>] :
        tok \in {"token", "new token"}}
    \cup {[kind |-> k, access_token |-> None, scope |-> None] :
             k \in {"http 400", "failed"}}

\* The row the commit of line 211 writes: the columns whose assigned value
\* differs from the loaded one, the new ciphertext, and updated_at.
Committed(base, loaded, oauth_data, shop_domain, token_data, t) ==
    [access_token_setter(base, token_data.access_token) EXCEPT
        !.merchant_id = IF loaded.merchant_id # oauth_data.merchant_id
                        THEN oauth_data.merchant_id ELSE @,
        !.shop_domain = IF loaded.shop_domain # shop_domain
                        THEN shop_domain ELSE @,
        !.scope = IF loaded.scope # token_data.scope
                  THEN token_data.scope ELSE @,
        !.is_active = IF loaded.is_active # 1 THEN 1 ELSE @,
        !.updated_at = <<t>>]

\* The token exchange has answered.  A failure rolls the session back (a
\* new merchant is not inserted) and raises 400 or 502.  Otherwise the
\* credential, the scope and is_active are assigned and committed;
\* merchant_id and shop_domain are unique, and a commit that violates a
\* constraint is rolled back by the outer except clause, which raises 500.
\* Then get_shop_info is awaited.
ExchangeResume(token_data) ==
    /\ oauth.pc = "exchange"
    /\ LET base == IF oauth.created THEN oauth.loaded
                                    ELSE merchants[oauth.id]
           row == Committed(base, oauth.loaded, oauth.args.oauth_data,
                            oauth.shop_domain, token_data, now)
           conflict == \E m \in (DOMAIN merchants) \ {oauth.id} :
                          \/ merchants[m].merchant_id = row.merchant_id
                          \/ merchants[m].shop_domain = row.shop_domain
           Raise(status_code, detail) ==
               /\ ret' = Returned("complete_oauth", oauth.args,
                                  OAuthError(status_code, detail))
               /\ oauth' = NoOAuth
               /\ UNCHANGED merchants
       IN  IF token_data.kind = "http 400"
           THEN Raise(400, "Invalid or already used authorization code")
           ELSE IF token_data.kind = "failed"
           THEN Raise(502, "Failed to exchange authorization code")
           ELSE IF conflict
           THEN Raise(500, "OAuth failed")
           ELSE /\ merchants' = [m \in (DOMAIN merchants) \cup {oauth.id} |->
                                    IF m = oauth.id THEN row
                                                    ELSE merchants[m]]
                /\ oauth' = [oauth EXCEPT !.pc = "shop_info"]
                /\ ret' = NoCall
    /\ UNCHANGED <<hookvars, scheduler, remote, sent, products, runs, bulk,
                   now>>

\* get_shop_info has answered or raised (the shop domain is the fallback
\* name); register_webhooks is called, finds the store and sends the first
\* remote call of its loop.
ShopInfoResume(answered) ==
    /\ oauth.pc = "shop_info"
    /\ calls["register"].pc = "idle"
    /\ \E found \in First(ActiveWebhooks(webhooks, oauth.id,
                                         WEBHOOK_CONFIG[1].topic)) :
          calls' = [calls EXCEPT !["register"] =
                       StartTopic(oauth.id, 1, found, <<>>, <<>>, webhooks)]
    /\ oauth' = [oauth EXCEPT
                    !.pc = "register",
                    !.shop_name = IF answered
                                  THEN <<"name of", oauth.shop_domain>>
                                  ELSE <<"domain", oauth.shop_domain>>]
    /\ ret' = NoCall
    /\ UNCHANGED <<webhooks, subscriptions, scheduler, merchants, remote,
                   sent, products, runs, bulk, now>>

\* The rest of complete_oauth once webhook_results is bound, by
\* register_webhooks or by the except clause around it.  The arguments of
\* add_task read merchant.id and merchant.access_token, which every commit
\* of register_webhooks has expired: in a session whose commit has raised
\* the reload raises, and the outer except clause answers 500.  Otherwise
\* the initial sync is added to the background tasks and the response says
\* so.
complete_oauth_return(webhook_results, session_ok) ==
    IF session_ok
    THEN /\ ret' = Returned("complete_oauth", oauth.args,
                      [status |-> "authenticated", status_code |-> 200,
                       merchant_id |-> merchants[oauth.id].merchant_id,
                       shop_domain |-> oauth.shop_domain,
                       shop_name |-> oauth.shop_name,
                       webhooks_registered |-> webhook_results,
                       initial_product_sync |-> "started"])
         /\ oauth' = [pc |-> "background", args |-> oauth.args,
                      task |-> [merchant_id |-> oauth.id,
                                shop_domain |-> oauth.shop_domain,
                                access_token |->
                                    access_token(merchants[oauth.id])]]
    ELSE /\ ret' = Returned("complete_oauth", oauth.args,
                            OAuthError(500, "OAuth failed"))
         /\ oauth' = NoOAuth

\* The first query of register_webhooks raises (the database is away):
\* the except clause of lines 226-228 binds webhook_results.
RegisterRaises ==
    /\ oauth.pc = "shop_info"
    /\ complete_oauth_return(
           [error |-> "Webhook registration failed, will retry later"], TRUE)
    /\ UNCHANGED <<hookvars, scheduler, merchants, remote, sent, products,
                   runs, bulk, now>>

\* initial_product_sync_background, run once the response is sent: the
\* merchant is looked up by id and fetch_all_products_from_shopify called.
initial_product_sync_background ==
    /\ oauth.pc = "background"
    /\ bulk.pc = "idle"
    /\ IF oauth.task.merchant_id \in DOMAIN merchants
       THEN bulk' = [pc |-> "request", merchant |-> oauth.task.merchant_id,
                     since_id |-> 0, total_stats |-> InitialTotalStats,
                     failed_tx |-> FALSE, resp |-> None]
       ELSE UNCHANGED bulk
    /\ oauth' = NoOAuth
    /\ ret' = NoCall
    /\ UNCHANGED <<hookvars, scheduler, merchants, remote, sent, products,
                   runs, now>>

----------------------------------------------------------------------------
(* register_webhooks, continued *)

\* The coroutine of register_webhooks resumes with the response of its
\* remote call and runs to its next await or to its return.
RegisterStep(commit_ok) ==
    /\ calls["register"].pc = "response"
    /\ \E h \in {HandleResponse(calls["register"], webhooks, commit_ok)} :
          LET c == calls["register"]
              results == Append(c.results, h.result)
              trace == Append(c.trace, TraceEntry(c, h))
              Return(rs, tr, session_ok) ==
                  /\ calls' = [calls EXCEPT !["register"] = [pc |-> "idle"]]
                  /\ IF oauth.pc = "register"
                     THEN complete_oauth_return(rs, session_ok)
                     ELSE /\ ret' = Returned("register_webhooks",
                                             [merchant_id |-> c.merchant,
                                              trace |-> tr], rs)
                          /\ UNCHANGED oauth
          IN  /\ webhooks' = h.table
              /\ IF h.await
                 THEN /\ calls' = [calls EXCEPT !["register"] =
                             [c EXCEPT !.pc = "request", !.stage = h.stage,
                                       !.req = h.req, !.resp = NoResponse,
                                       !.db_webhook = h.db_webhook,
                                       !.seen = h.seen,
                                       !.posted = (h.req.kind = "post")]]
                      /\ ret' = NoCall
                      /\ UNCHANGED oauth
                 ELSE IF h.raised = "local"
                 THEN Return(results \o SessionFailures(c.k),
                             trace \o SessionTrace(c.k, h.table), FALSE)
                 ELSE IF c.k = NumTopics
                 THEN Return(results, trace, TRUE)
                 ELSE /\ \E found \in First(ActiveWebhooks(h.table,
                                     c.merchant,
                                     WEBHOOK_CONFIG[c.k + 1].topic)) :
                            calls' = [calls EXCEPT !["register"] =
                                         StartTopic(c.merchant, c.k + 1,
                                                    found, results, trace,
                                                    h.table)]
                      /\ ret' = NoCall
                      /\ UNCHANGED oauth
    /\ UNCHANGED <<subscriptions, scheduler, merchants, remote, sent,
                   products, runs, bulk, now>>

RegisterResume == RegisterStep(TRUE)

\* The same step when the database refuses the commit of the stretch.
RegisterResumeDbError ==
    /\ calls["register"].pc = "response"
    /\ HandleResponse(calls["register"], webhooks, TRUE).raised = "none"
    /\ ~HandleResponse(calls["register"], webhooks, TRUE).await
    /\ RegisterStep(FALSE)

\* ---- sync_webhooks ----

\* POST /api/webhooks/sync: sync_webhooks finds the store and lists the
\* remote subscriptions.
sync_webhooks_endpoint(m) ==
    /\ calls["sync"].pc = "idle"
    /\ Authorized(m)
    /\ calls' = [calls EXCEPT !["sync"] =
           [pc |-> "request", merchant |-> m,
            req |-> Request("list", merchants[m].shop_domain, 0, "", None),
            resp |-> NoResponse]]
    /\ ret' = NoCall
    /\ UNCHANGED <<webhooks, subscriptions, appvars, merchants, remote, sent,
                   products, runs, bulk, now>>

RECURSIVE InsertEach(_, _, _, _)
\* db.add of one row per discovered subscription, flushed by the commit.
InsertEach(acc, store_id, discovered, k) ==
    IF k > Len(discovered) \/ ~acc.ok
    THEN acc
    ELSE InsertEach(InsertWebhook(acc.table, store_id, discovered[k].id,
                                  discovered[k].topic, discovered[k].address),
                    store_id, discovered, k + 1)

\* Faulty variant of Discovered: no remote subscription is added.
Discovered_None(shopify_webhooks, db_webhook_ids) == <<>>

\* The remote subscriptions sync_webhooks adds to the table: those whose
\* id no row that was active at the query holds.
Discovered(shopify_webhooks, db_webhook_ids) ==
    SelectSeq(shopify_webhooks, LAMBDA w : w.id \notin db_webhook_ids)

\* sync_webhooks after list_webhooks has returned shopify_webhooks.
SyncTable(table, store_id, shopify_webhooks) ==
    LET shopify_webhook_ids ==
            {shopify_webhooks[k].id : k \in 1..Len(shopify_webhooks)}
        db_webhooks == {r \in table : r.store_id = store_id
                                      /\ r.is_active = 1}
        gone == {r \in db_webhooks :
                    r.shopify_webhook_id \notin shopify_webhook_ids}
        db_webhook_ids == {r.shopify_webhook_id : r \in db_webhooks}
        discovered == Discovered(shopify_webhooks, db_webhook_ids)
        ins == InsertEach([ok |-> TRUE,
                           table |-> Deactivate(table,
                                                {r.id : r \in gone}),
                           id |-> 0],
                          store_id, discovered, 1)
    IN  [ok |-> ins.ok,
         table |-> IF ins.ok THEN ins.table ELSE table,
         results |->
            [status |-> "success",
             shopify_count |-> Len(shopify_webhooks),
             database_count |-> Cardinality(db_webhooks \ gone),
             deleted_count |-> Cardinality(gone),
             discovered_count |-> Len(discovered)]]

\* The coroutine of sync_webhooks resumes with the list and returns; an
\* exception of list_webhooks or of the commit leaves through the
\* endpoint as a 500.
SyncResume ==
    LET c == calls["sync"]
        args == [merchant_id |-> c.merchant, resp |-> c.resp,
                 before |-> webhooks]
    IN  /\ c.pc = "response"
        /\ calls' = [calls EXCEPT !["sync"] = [pc |-> "idle"]]
        /\ IF c.resp.kind = "ok"
           THEN \E s \in {SyncTable(webhooks, c.merchant, c.resp.body)} :
                   IF s.ok
                   THEN /\ webhooks' = s.table
                        /\ ret' = Returned("sync_webhooks", args, s.results)
                   ELSE /\ webhooks' = webhooks
                        /\ ret' = Returned("sync_webhooks", args,
                                           HTTPException(500))
           ELSE /\ webhooks' = webhooks
                /\ ret' = Returned("sync_webhooks", args, HTTPException(500))
        /\ UNCHANGED <<subscriptions, appvars, merchants, remote, sent, products,
                       runs, bulk, now>>

\* ---- delete_webhook ----

\* DELETE /api/webhooks/delete/{webhook_id}: delete_webhook sends the
\* DELETE to the remote.
delete_webhook_endpoint(m, webhook_id) ==
    /\ calls["delete"].pc = "idle"
    /\ Authorized(m)
    /\ calls' = [calls EXCEPT !["delete"] =
           [pc |-> "request", merchant |-> m, webhook_id |-> webhook_id,
            req |-> Request("delete", merchants[m].shop_domain, webhook_id,
                            "", None),
            resp |-> NoResponse]]
    /\ ret' = NoCall
    /\ UNCHANGED <<webhooks, subscriptions, appvars, merchants, remote, sent,
                   products, runs, bulk, now>>

\* Faulty variant of RemoteDeleted: the remote's answer is not checked.
RemoteDeleted_Unchecked(resp) == TRUE

\* Whether delete_webhook reaches its local update: raise_for_status has
\* raised unless the remote answered 2xx.
RemoteDeleted(resp) == resp.kind = "ok"

\* The coroutine of delete_webhook resumes with the remote's answer.
DeleteResume ==
    LET c == calls["delete"]
        args == [merchant_id |-> c.merchant, webhook_id |-> c.webhook_id,
                 resp |-> c.resp, before |-> webhooks]
        rows == {r \in webhooks : r.shopify_webhook_id = c.webhook_id}
    IN  /\ c.pc = "response"
        /\ calls' = [calls EXCEPT !["delete"] = [pc |-> "idle"]]
        /\ IF RemoteDeleted(c.resp)
           THEN /\ \E db_webhook \in First(rows) :
                      webhooks' = IF db_webhook = None
                                  THEN webhooks
                                  ELSE Deactivate(webhooks,
                                                  {db_webhook[1].id})
                /\ ret' = Returned("delete_webhook", args,
                                   [status |-> "success",
                                    webhook_id |-> c.webhook_id])
           ELSE /\ webhooks' = webhooks
                /\ ret' = Returned("delete_webhook", args, HTTPException(500))
        /\ UNCHANGED <<subscriptions, appvars, merchants, remote, sent, products,
                       runs, bulk, now>>

----------------------------------------------------------------------------
(* The scheduler (services/scheduler.py, main.py): the module global, the  *)
(* job 'daily_reconciliation' and its cron rule.  The scheduler is an      *)
(* APScheduler AsyncIOScheduler with the default job store and executor;   *)
(* the job is a coroutine function, run as a task of the event loop.       *)
(* Clock values are seconds since midnight UTC of day 0.                   *)

MaxDays == 2          \* the scheduler is observed over MaxDays days

Day == 24 * 60 * 60

\* CronTrigger(hour=hour, minute=minute, timezone='UTC')
CronTrigger(hour, minute) == [hour |-> hour, minute |-> minute]

\* The second of the day a cron rule fires at.
FireSecond(trigger) == (trigger.hour * 60 + trigger.minute) * 60

\* CronTrigger.get_next_fire_time(previous_fire_time, now): the first fire
\* time of the rule at or after now, and after the previous fire time.
get_next_fire_time(trigger, previous_fire_time, t) ==
    LET start == IF previous_fire_time = None THEN t
                 ELSE IF t < previous_fire_time[1] THEN t
                 ELSE previous_fire_time[1] + 1
        today == (start \div Day) * Day + FireSecond(trigger)
    IN  IF today >= start THEN today ELSE today + Day

Job(trigger, next_run_time) ==
    [id |-> "daily_reconciliation", name |-> "Daily Product Reconciliation",
     trigger |-> trigger, next_run_time |-> next_run_time]

\* The global after start_scheduler() at second t: a running scheduler
\* holding the one job, due at the next 02:00 UTC.
Started(t) ==
    <<[running |-> TRUE,
       jobs |-> <<Job(CronTrigger(2, 0),
                      get_next_fire_time(CronTrigger(2, 0), None, t))>>]>>

\* Faulty variant of start_scheduler: a new scheduler with the 02:00 job
\* replaces the one that exists.
start_scheduler_Restart ==
    /\ scheduler' = Started(now)
    /\ ret' = Returned("start_scheduler", None, None)
    /\ UNCHANGED <<hookvars, oauth, merchants, remote, sent, products, runs,
                   bulk, now>>

\* start_scheduler(), called by the lifespan at startup: a scheduler that
\* exists is returned as it is.
start_scheduler ==
    /\ IF scheduler # None THEN UNCHANGED scheduler
                           ELSE scheduler' = Started(now)
    /\ ret' = Returned("start_scheduler", None, None)
    /\ UNCHANGED <<hookvars, oauth, merchants, remote, sent, products, runs,
                   bulk, now>>

\* The run of the job the executor holds as a pending task.
JobTask == IF runs["job"].pc = "idle" THEN None ELSE <<runs["job"]>>

\* scheduler.shutdown(wait=True) with a run of the job pending.
\* AsyncIOExecutor.shutdown is a plain function called inside the event
\* loop and cannot wait for a coroutine of that loop: depending on the
\* APScheduler release it cancels the pending task (CancelledError is
\* raised at the await the run is suspended at, no except Exception clause
\* catches it, the finally clauses close the sessions and the run ends
\* where it is) or returns and leaves the task to the event loop.
Shutdown(table, cancel) ==
    IF cancel THEN [table EXCEPT !["job"] = NoRun] ELSE table

\* stop_scheduler(), called by the lifespan at shutdown.  ret records the
\* run of the job that was pending when the call was made.
stop_scheduler ==
    /\ IF scheduler = None
       THEN UNCHANGED <<scheduler, runs>>
       ELSE /\ scheduler' = None
            /\ \E cancel \in BOOLEAN : runs' = Shutdown(runs, cancel)
    /\ ret' = Returned("stop_scheduler",
                       [was_running |-> scheduler # None,
                        pending |-> JobTask], None)
    /\ UNCHANGED <<hookvars, oauth, merchants, remote, sent, products, bulk,
                   now>>

\* get_scheduler_status()
get_scheduler_status ==
    /\ ret' = Returned("get_scheduler_status", None,
                  IF scheduler = None
                  THEN [running |-> FALSE, jobs |-> <<>>]
                  ELSE [running |-> scheduler[1].running,
                        jobs |-> [k \in 1..Len(scheduler[1].jobs) |->
                           [id |-> scheduler[1].jobs[k].id,
                            name |-> scheduler[1].jobs[k].name,
                            next_run |->
                               <<"iso", scheduler[1].jobs[k].next_run_time>>,
                            trigger |-> scheduler[1].jobs[k].trigger]]])
    /\ UNCHANGED <<hookvars, appvars, merchants, remote, sent, products,
                   runs, bulk, now>>

\* Faulty variant of Rescheduled: the rule is replaced but the next fire
\* time computed from the old rule is kept.
Rescheduled_KeepsNextRun(job, trigger, t) == [job EXCEPT !.trigger = trigger]

\* scheduler.reschedule_job(job_id, trigger=trigger): the job gets the new
\* trigger and the next fire time of the new trigger, counted from now.
Rescheduled(job, trigger, t) ==
    [job EXCEPT !.trigger = trigger,
                !.next_run_time = get_next_fire_time(trigger, None, t)]

\* POST /api/sync/scheduler/reschedule: hour is 0..23 and minute 0..59
\* (the Query constraints); reschedule_job raises without a scheduler and
\* the endpoint answers 500.
reschedule_job_endpoint(hour, minute) ==
    /\ IF scheduler = None
       THEN /\ UNCHANGED scheduler
            /\ ret' = Returned("reschedule_job",
                               [hour |-> hour, minute |-> minute],
                               HTTPException(500))
       ELSE /\ scheduler' =
                  <<[scheduler[1] EXCEPT !.jobs =
                        [k \in 1..Len(scheduler[1].jobs) |->
                            IF scheduler[1].jobs[k].id = "daily_reconciliation"
                            THEN Rescheduled(scheduler[1].jobs[k],
                                             CronTrigger(hour, minute), now)
                            ELSE scheduler[1].jobs[k]]]>>
            /\ ret' = Returned("reschedule_job",
                               [hour |-> hour, minute |-> minute],
                               [status |-> "success", status_code |-> 200])
    /\ UNCHANGED <<hookvars, oauth, merchants, remote, sent, products, runs,
                   bulk, now>>

\* The scheduler's timer wakes it at the job's next fire time: the job is
\* submitted, unless its previous instance is still running
\* (max_instances=1), and the next fire time is taken from the trigger.
SchedulerFire ==
    /\ scheduler # None
    /\ scheduler[1].running
    /\ \E k \in 1..Len(scheduler[1].jobs) :
          /\ scheduler[1].jobs[k].next_run_time = now
          /\ scheduler' =
                <<[scheduler[1] EXCEPT !.jobs[k].next_run_time =
                      get_next_fire_time(scheduler[1].jobs[k].trigger,
                                         <<now>>, now)]>>
    /\ IF runs["job"].pc = "idle"
       THEN Advance("job", ActiveMerchants, <<>>)
       ELSE /\ UNCHANGED runs
            /\ ret' = NoCall
    /\ UNCHANGED <<hookvars, oauth, merchants, remote, sent, products, bulk,
                   now>>

\* The hours and minutes handed to the reschedule endpoint.
Hours == {2, 3}

Minutes == {0, 30}

\* The instants the clock is observed at: the fire times of the rules and
\* the second after each.
Instants ==
    {d * Day + FireSecond(CronTrigger(h, m)) + e :
        d \in 0..(MaxDays - 1), h \in Hours, m \in Minutes, e \in {0, 1}}

\* Time passes up to instant t; the timer of a running scheduler does not
\* let the fire time of its job go by.
PassTime(t) ==
    /\ t > now
    /\ scheduler # None =>
          \A k \in 1..Len(scheduler[1].jobs) :
              t <= scheduler[1].jobs[k].next_run_time
    /\ now' = t
    /\ ret' = NoCall
    /\ UNCHANGED <<hookvars, appvars, merchants, remote, sent, products,
                   runs, bulk>>

----------------------------------------------------------------------------
(* Initial states and specifications *)

\* Every merchant has completed OAuth; nothing is replicated yet; the
\* remote catalog holds any subset of the products, each at updated_at 1.
Init ==
    /\ merchants = [m \in MerchantIds |->
                       Onboarded(m, 1, <<encrypt("token")>>)]
    /\ remote \in [ProductIds -> {None, <<1>>}]
    /\ sent = {}
    /\ products = {}
    /\ runs = [c \in Callers |-> NoRun]
    /\ bulk = NoBulk
    /\ ret = NoCall
    /\ now = 0
    /\ webhooks = {}
    /\ subscriptions = <<>>
    /\ calls = NoHookCalls
    /\ oauth = NoOAuth
    /\ scheduler = Started(0)

RemoteChange ==
    \E i \in HotIds : RemoteCreate(i) \/ RemoteUpdate(i) \/ RemoteDelete(i)

Webhook ==
    \E n \in sent :
        \/ product_create_webhook(n)
        \/ product_update_webhook(n)
        \/ product_delete_webhook(n)

OnDemandReconcile ==
    \/ \E m \in MerchantIds, md \in BOOLEAN : reconcile_products_endpoint(m, md)
    \/ ReconcileFetch("endpoint")
    \/ ReconcileApply("endpoint")

ForceResync ==
    \/ \E m \in MerchantIds : force_full_resync_endpoint(m)
    \/ FetchAllServe
    \/ FetchAllPage

BulkSync ==
    \E m \in MerchantIds, products_data \in BatchInputs :
        SyncProductsCall(m, products_data)

\* Catalog replica under remote changes: webhooks and on-demand reconcile.
NextCatalog == RemoteChange \/ Webhook \/ OnDemandReconcile

SpecCatalog == Init /\ [][NextCatalog]_vars

\* Every writer of the products table: webhooks, bulk syncs, reconcile and
\* force-resync interleave with each other and with remote changes.
NextWriters ==
    \/ RemoteChange
    \/ Webhook
    \/ BulkSync
    \/ OnDemandReconcile
    \/ ForceResync

\* Only the changing product exists.
InitWriters == Init /\ \A i \in ProductIds \ HotIds : remote[i] = None

SpecWriters == InitWriters /\ [][NextWriters]_vars

\* Webhook deliveries as time passes.
NextUpsert == RemoteChange \/ Webhook \/ Tick

SpecUpsert == Init /\ [][NextUpsert]_vars

\* The three callers of reconcile_products on an unchanging remote catalog.
NextTriggers ==
    \/ OnDemandReconcile
    \/ JobFire
    \/ ManualTriggerAll
    \/ \E m \in MerchantIds : ManualTriggerOne(m)
    \/ \E c \in Callers : RunContinue(c) \/ ReconcileFetch(c) \/ ReconcileApply(c)

SpecTriggers == Init /\ [][NextTriggers]_vars

\* Bulk sync and the full paginated fetch on an unchanging remote catalog.
NextBulk == BulkSync \/ ForceResync \/ Tick

SpecBulk == Init /\ [][NextBulk]_vars

\* Webhooks and on-demand reconcile with a database that can fail.
NextReport ==
    \/ RemoteChange
    \/ Webhook
    \/ OnDemandReconcile
    \/ ReconcileApplyDbError("endpoint")

SpecReport == Init /\ [][NextReport]_vars

\* The scheduler's job, the manual trigger and the on-demand endpoint on a
\* remote catalog where products appear and disappear.
NextScheduled ==
    \/ \E i \in HotIds : RemoteCreate(i) \/ RemoteDelete(i)
    \/ OnDemandReconcile
    \/ JobFire
    \/ ManualTriggerAll
    \/ \E m \in MerchantIds : ManualTriggerOne(m)
    \/ \E c \in {"job", "manual"} :
          RunContinue(c) \/ ReconcileFetch(c) \/ ReconcileApply(c)

SpecScheduled == Init /\ [][NextScheduled]_vars

\* An all-merchant run over a merchants table of NumTenants rows, each
\* active with a credential, active without one, or inactive; the job and
\* the manual trigger do not overlap.
MerchantRows(m) ==
    {Onboarded(m, a, tok) :
        a \in {0, 1}, tok \in {None, <<encrypt("token")>>}}

InitAllTenants ==
    /\ merchants \in {f \in [1..NumTenants -> UNION {MerchantRows(m) :
                                                     m \in 1..NumTenants}] :
                          \A m \in 1..NumTenants : f[m] \in MerchantRows(m)}
    /\ remote = [i \in ProductIds |-> <<1>>]
    /\ sent = {}
    /\ products = {}
    /\ runs = [c \in Callers |-> NoRun]
    /\ bulk = NoBulk
    /\ ret = NoCall
    /\ now = 0
    /\ webhooks = {}
    /\ subscriptions = <<>>
    /\ calls = NoHookCalls
    /\ oauth = NoOAuth
    /\ scheduler = Started(0)

\* A step of caller c's run: a sleep ends, a page request is answered, the
\* coroutine resumes after the last page.
RunStep(c) == RunContinue(c) \/ ReconcileFetch(c) \/ ReconcileApply(c)

NextAllTenants ==
    \/ (runs["manual"].pc = "idle" /\ JobFire)
    \/ (runs["job"].pc = "idle" /\ ManualTriggerAll)
    \/ \E c \in {"job", "manual"} : RunStep(c) \/ ReconcileApplyDbError(c)

\* The event loop resumes a coroutine whose await is over: asyncio.sleep(5)
\* ends, a client.get returns or raises within its 30 s timeout, and the
\* coroutine that holds the last page runs its steps 2 to 5.  The last
\* conjunct is WF_vars(ReconcileApply(c)) written out: that action is
\* enabled exactly when pc = "apply" and every step of it leaves "apply".
SpecAllTenants ==
    /\ InitAllTenants
    /\ [][NextAllTenants]_vars
    /\ \A c \in {"job", "manual"} :
          /\ WF_vars(RunContinue(c))
          /\ WF_vars(ReconcileFetch(c))
          /\ []<>(runs[c].pc # "apply")

\* The webhook subscription manager: the remote's subscriptions change
\* under it, and its endpoints are called one after the other.
ManagerIdle == calls = NoHookCalls

RemoteSubscriptionChange ==
    \/ \E m \in MerchantIds, k \in 1..NumTopics :
          \E address \in Addresses(WEBHOOK_CONFIG[k].topic) :
             SubscriptionCreatedOutside(merchants[m].shop_domain,
                                        WEBHOOK_CONFIG[k].topic, address)
    \/ \E i \in 1..MaxSubs : SubscriptionDeletedOutside(i)

InitManager == Init /\ remote = [i \in ProductIds |-> None]

NextManager ==
    \/ RemoteSubscriptionChange
    \/ ManagerIdle /\ \E m \in MerchantIds : register_webhooks_endpoint(m)
    \/ ManagerIdle /\ \E m \in MerchantIds : sync_webhooks_endpoint(m)
    \/ ManagerIdle /\ \E m \in MerchantIds, webhook_id \in 1..MaxSubs :
                          delete_webhook_endpoint(m, webhook_id)
    \/ \E f \in ManagerCalls : RemoteServe(f)
    \/ RegisterResume
    \/ SyncResume
    \/ DeleteResume

SpecManager == InitManager /\ [][NextManager]_vars

\* register_webhooks alone, with a database that can refuse a commit.
NextRegister ==
    \/ RemoteSubscriptionChange
    \/ \E m \in MerchantIds : register_webhooks_endpoint(m)
    \/ RemoteServe("register")
    \/ RegisterResume
    \/ RegisterResumeDbError

SpecRegister == InitManager /\ [][NextRegister]_vars

\* register_webhooks runs one after the other; the remote's subscriptions
\* change under other hands only between two runs.
NextRecreate ==
    \/ ManagerIdle /\ RemoteSubscriptionChange
    \/ \E m \in MerchantIds : register_webhooks_endpoint(m)
    \/ RemoteServe("register")
    \/ RegisterResume

SpecRecreate == InitManager /\ [][NextRecreate]_vars

\* Requests at the register and sync endpoints are handled concurrently:
\* each of the two coroutines can be resumed while the other awaits the
\* remote.
NextDrift ==
    \/ \E m \in MerchantIds : register_webhooks_endpoint(m)
    \/ \E m \in MerchantIds : sync_webhooks_endpoint(m)
    \/ \E f \in {"register", "sync"} : RemoteServe(f)
    \/ RegisterResume
    \/ SyncResume

SpecDrift == InitManager /\ [][NextDrift]_vars

\* The webhooks table and the remote subscriptions once register_webhooks
\* has run for every merchant: one active row and one live subscription
\* per merchant and topic.
RegisteredRows ==
    {[id |-> (m - 1) * NumTopics + k, store_id |-> m,
      shopify_webhook_id |-> (m - 1) * NumTopics + k,
      topic |-> WEBHOOK_CONFIG[k].topic,
      address |-> WEBHOOK_CONFIG[k].address, is_active |-> 1] :
        m \in MerchantIds, k \in 1..NumTopics}

RegisteredSubscriptions ==
    [i \in 1..(NumMerchants * NumTopics) |->
        [shop |-> ((i - 1) \div NumTopics) + 1,
         topic |-> WEBHOOK_CONFIG[((i - 1) % NumTopics) + 1].topic,
         address |-> WEBHOOK_CONFIG[((i - 1) % NumTopics) + 1].address,
         live |-> TRUE]]

\* Every merchant is onboarded and its webhooks are registered.
InitRegistered ==
    /\ merchants = [m \in MerchantIds |->
                       Onboarded(m, 1, <<encrypt("token")>>)]
    /\ remote \in [ProductIds -> {None, <<1>>}]
    /\ sent = {}
    /\ products = {}
    /\ runs = [c \in Callers |-> NoRun]
    /\ bulk = NoBulk
    /\ ret = NoCall
    /\ now = 0
    /\ webhooks = RegisteredRows
    /\ subscriptions = RegisteredSubscriptions
    /\ calls = NoHookCalls
    /\ oauth = NoOAuth
    /\ scheduler = Started(0)

\* Requests at the webhook endpoints, signed by Shopify or not, while the
\* remote catalog changes.
NextInbound ==
    \/ RemoteChange
    \/ \E request \in GoodRequests : InboundWebhook(request)
    \/ \E request \in BadRequests : InboundWebhook(request)
    \/ Tick

SpecInbound == InitRegistered /\ [][NextInbound]_vars

\* The seconds the clock is observed at while callbacks arrive: either side
\* of the duplicate completion window and of the timestamp window.
OAuthInstants ==
    {ReplayWindow - 1, ReplayWindow, TimestampWindow - 1, TimestampWindow,
     TimestampWindow + 1}

\* The merchant ids callbacks name as state: those of the shops and one
\* more, a merchant that connects a shop another merchant id has.
OAuthNames == 1..(NumMerchants + 1)

\* The timestamp parameter of a callback: the second Shopify signed at, or
\* a text that is no integer.
OAuthTimestamps == {Digits(0), Digits(TimestampWindow + 1), NotDigits}

\* The forms the frontend forwards the shop and the host in.
CallbackForms ==
    {[scheme |-> "", host |-> None],
     [scheme |-> "https://", host |-> <<"host">>]}

\* The callbacks Shopify signed, as the frontend forwards them.
SignedCallbacks ==
    {Callback(SHOPIFY_API_SECRET, "code", ShopText(form.scheme, shop),
              merchant_id, timestamp, form.host) :
        form \in CallbackForms, shop \in MerchantIds,
        merchant_id \in OAuthNames, timestamp \in OAuthTimestamps}

\* Bodies Shopify did not sign: signed under another secret, or a signed
\* callback whose timestamp was replaced.
UnsignedCallbacks ==
    {Callback(OtherSecret, "code", ShopText("", shop), merchant_id,
              timestamp, None) :
        shop \in MerchantIds, merchant_id \in OAuthNames,
        timestamp \in OAuthTimestamps}
    \cup ({[oauth_data EXCEPT !.timestamp = timestamp] :
              oauth_data \in {c \in SignedCallbacks :
                                 c.host = None /\ c.shop.scheme = ""},
              timestamp \in OAuthTimestamps} \ SignedCallbacks)

OAuthRequests == SignedCallbacks \cup UnsignedCallbacks

\* No merchant has connected a shop yet; the shops have no product.
InitOAuth ==
    /\ merchants = <<>>
    /\ remote = [i \in ProductIds |-> None]
    /\ sent = {}
    /\ products = {}
    /\ runs = [c \in Callers |-> NoRun]
    /\ bulk = NoBulk
    /\ ret = NoCall
    /\ now = 0
    /\ webhooks = {}
    /\ subscriptions = <<>>
    /\ calls = NoHookCalls
    /\ oauth = NoOAuth
    /\ scheduler = Started(0)

\* POST /api/oauth/complete, one call at a time and none while an initial
\* sync is running, with everything the call awaits and the background
\* task it leaves, as time passes.
NextOAuth ==
    \/ bulk.pc = "idle"
          /\ \E oauth_data \in OAuthRequests : complete_oauth(oauth_data)
    \/ \E token_data \in TokenResponses : ExchangeResume(token_data)
    \/ \E answered \in BOOLEAN : ShopInfoResume(answered)
    \/ RegisterRaises
    \/ RemoteServe("register")
    \/ RegisterResume
    \/ initial_product_sync_background
    \/ FetchAllServe
    \/ FetchAllPage
    \/ \E t \in OAuthInstants : PassTime(t)

SpecOAuth == InitOAuth /\ [][NextOAuth]_vars

\* The same with a database that can refuse a commit of register_webhooks.
NextOnboard == NextOAuth \/ RegisterResumeDbError

SpecOnboard == InitOAuth /\ [][NextOnboard]_vars

\* get_merchant_from_header: 400 without the X-Merchant-Id header, 404
\* unless an active merchant has that merchant_id, 403 when its credential
\* reads as None, the merchant otherwise.
get_merchant_from_header(x_merchant_id) ==
    /\ \E merchant \in
             IF x_merchant_id = None THEN {None}
             ELSE First({m \in DOMAIN merchants :
                            /\ merchants[m].merchant_id = x_merchant_id[1]
                            /\ merchants[m].is_active = 1}) :
          ret' = Returned("get_merchant_from_header",
                     [x_merchant_id |-> x_merchant_id],
                     IF x_merchant_id = None
                     THEN OAuthError(400, "Missing X-Merchant-Id header")
                     ELSE IF merchant = None
                     THEN OAuthError(404, "Merchant not found or inactive")
                     ELSE IF access_token(merchants[merchant[1]]) = None
                     THEN OAuthError(403, "Merchant has not completed OAuth")
                     ELSE [status |-> "merchant", status_code |-> 200,
                           detail |-> merchants[merchant[1]].merchant_id])
    /\ UNCHANGED <<hookvars, appvars, merchants, remote, sent, products,
                   runs, bulk, now>>

\* What the access_token column of an onboarded merchant can hold: a token
\* sealed under the key of the process, one sealed under the key in use
\* before a rotation, a text that is no token.
StoredCredentials ==
    {<<encrypt("token")>>, <<Fernet(RotatedKey, "token")>>, <<Corrupted>>}

\* NumTenants active merchants, each with one of the stored credentials.
InitCredentials ==
    /\ merchants \in {f \in [1..NumTenants ->
                               {Onboarded(m, 1, tok) :
                                   m \in 1..NumTenants,
                                   tok \in StoredCredentials}] :
                          \A m \in 1..NumTenants : f[m].merchant_id = m}
    /\ remote = [i \in ProductIds |-> <<1>>]
    /\ sent = {}
    /\ products = {}
    /\ runs = [c \in Callers |-> NoRun]
    /\ bulk = NoBulk
    /\ ret = NoCall
    /\ now = 0
    /\ webhooks = {}
    /\ subscriptions = <<>>
    /\ calls = NoHookCalls
    /\ oauth = NoOAuth
    /\ scheduler = Started(0)

\* The daily job and the requests of merchants at the endpoints that
\* depend on get_merchant_from_header.
NextCredentials ==
    \/ JobFire
    \/ RunStep("job")
    \/ \E x_merchant_id \in {None} \cup {<<m>> : m \in 1..(NumTenants + 1)} :
          get_merchant_from_header(x_merchant_id)

SpecCredentials == InitCredentials /\ [][NextCredentials]_vars

\* Every writer of the products and webhooks tables of an onboarded
\* merchant: signed notifications (products and shop/redact), reconcile
\* with and without mark_deleted, and the webhook manager while
\* subscriptions are lost remotely.
\* The two tables have no writer in common but shop_redact_webhook, which
\* is one step: the calls of the manager are taken while no reconcile is
\* running, and the catalog changes while no call of the manager is.
RowsIdle ==
    /\ ManagerIdle
    /\ runs["endpoint"].pc = "idle"

InitRows ==
    /\ InitRegistered
    /\ \A i \in ProductIds \ HotIds : remote[i] = None

NextRows ==
    \/ ManagerIdle /\ RemoteChange
    \/ ManagerIdle /\ \E request \in GoodRequests : InboundWebhook(request)
    \/ ManagerIdle /\ OnDemandReconcile
    \/ \E i \in 1..MaxSubs : SubscriptionDeletedOutside(i)
    \/ RowsIdle /\ \E m \in MerchantIds : register_webhooks_endpoint(m)
    \/ RowsIdle /\ \E m \in MerchantIds : sync_webhooks_endpoint(m)
    \/ RowsIdle /\ \E m \in MerchantIds, webhook_id \in 1..MaxSubs :
                       delete_webhook_endpoint(m, webhook_id)
    \/ \E f \in ManagerCalls : RemoteServe(f)
    \/ RegisterResume
    \/ SyncResume
    \/ DeleteResume

SpecRows == InitRows /\ [][NextRows]_vars

\* The callback of a merchant that installs the app on its shop again.
Reinstalls ==
    {Callback(SHOPIFY_API_SECRET, "code", ShopText("", m), m, Digits(0),
              None) : m \in MerchantIds}

\* No OAuth completion, initial sync, manager call or reconciliation run
\* is in flight.
RedactedQuiet ==
    /\ oauth.pc = "idle"
    /\ bulk.pc = "idle"
    /\ ManagerIdle
    /\ \A c \in Callers : runs[c].pc = "idle"

\* A shop is redacted and later connected again: the notifications of
\* Shopify, the daily job and the manual triggers, and the OAuth
\* completion of a reinstall with what it awaits.  The remote changes and
\* the job, the triggers and the completion start while nothing else is in
\* flight; the notifications arrive at any time.
NextRedacted ==
    \/ RedactedQuiet /\ RemoteChange
    \/ \E request \in GoodRequests : InboundWebhook(request)
    \/ RedactedQuiet /\ JobFire
    \/ RedactedQuiet /\ ManualTriggerAll
    \/ RedactedQuiet /\ \E m \in MerchantIds : ManualTriggerOne(m)
    \/ \E c \in {"job", "manual"} : RunStep(c)
    \/ RedactedQuiet
          /\ \E oauth_data \in Reinstalls : complete_oauth(oauth_data)
    \/ \E token_data \in TokenResponses : ExchangeResume(token_data)
    \/ \E answered \in BOOLEAN : ShopInfoResume(answered)
    \/ RemoteServe("register")
    \/ RegisterResume
    \/ initial_product_sync_background
    \/ FetchAllServe
    \/ FetchAllPage

SpecRedacted == InitRows /\ [][NextRedacted]_vars

\* A second tenant beside the merchants whose shops are modelled: it
\* completed OAuth for its own shop, has synced one product of that shop
\* (the shops' product ids are disjoint) and has registered one
\* subscription.  Its shop does not change.
Neighbour == NumMerchants + 1

NeighbourProduct == NumProducts + 1

InitTenants ==
    /\ merchants = [m \in 1..Neighbour |->
                       Onboarded(m, 1, <<encrypt("token")>>)]
    /\ remote \in [ProductIds -> {None, <<1>>}]
    /\ \A i \in ProductIds \ HotIds : remote[i] = None
    /\ sent = {}
    /\ products = {InsertedRow(parse_shopify_product(
                                   FullProduct(NeighbourProduct, 1)),
                               Neighbour, 0)}
    /\ runs = [c \in Callers |-> NoRun]
    /\ bulk = NoBulk
    /\ ret = NoCall
    /\ now = 0
    /\ webhooks = RegisteredRows \cup
           {[id |-> NumMerchants * NumTopics + 1, store_id |-> Neighbour,
             shopify_webhook_id |-> NumMerchants * NumTopics + 1,
             topic |-> WEBHOOK_CONFIG[1].topic,
             address |-> WEBHOOK_CONFIG[1].address, is_active |-> 1]}
    /\ subscriptions = Append(RegisteredSubscriptions,
           [shop |-> Neighbour, topic |-> WEBHOOK_CONFIG[1].topic,
            address |-> WEBHOOK_CONFIG[1].address, live |-> TRUE])
    /\ calls = NoHookCalls
    /\ oauth = NoOAuth
    /\ scheduler = Started(0)

\* The three ways rows are soft-deleted, with two tenants in the tables:
\* product notifications and shop/redact of Shopify, and on-demand
\* reconcile with and without mark_deleted.
NextTenants ==
    \/ RemoteChange
    \/ \E request \in GoodRequests : InboundWebhook(request)
    \/ OnDemandReconcile

SpecTenants == InitTenants /\ [][NextTenants]_vars

\* The manual trigger, for one merchant or for all, over the merchants
\* tables of InitAllTenants, with fetch failures and database errors.
NextManual ==
    \/ \E m \in 1..NumTenants : ManualTriggerOne(m)
    \/ ManualTriggerAll
    \/ RunStep("manual")
    \/ ReconcileApplyDbError("manual")

SpecManual == InitAllTenants /\ [][NextManual]_vars

\* The scheduler over MaxDays days: the lifespan starts and stops it, the
\* reschedule and status endpoints are called, the job fires at its time
\* and its run goes on.
InitScheduler ==
    /\ Init
    /\ remote = [i \in ProductIds |-> <<1>>]

NextScheduler ==
    \/ start_scheduler
    \/ stop_scheduler
    \/ \E hour \in Hours, minute \in Minutes :
          reschedule_job_endpoint(hour, minute)
    \/ get_scheduler_status
    \/ SchedulerFire
    \/ RunStep("job")
    \/ \E t \in Instants : PassTime(t)

SpecScheduler == InitScheduler /\ [][NextScheduler]_vars

\* The two paginated fetches (force-resync and reconcile) on an unchanging
\* remote catalog.  The event loop resumes a coroutine whose await is
\* over: every client.get returns or raises within its 30 s timeout, and
\* the coroutine then runs up to its next await.
NextFetch ==
    \/ ForceResync
    \/ OnDemandReconcile

SpecFetch ==
    /\ Init
    /\ [][NextFetch]_vars
    /\ WF_vars(FetchAllServe)
    /\ []<>(bulk.pc # "response")
    /\ WF_vars(ReconcileFetch("endpoint"))

----------------------------------------------------------------------------
(* Properties *)

\* Ids of merchant m's rows whose soft-delete flag is clear.
ActiveIdsIn(table, m) ==
    {r.shopify_product_id : r \in {x \in table : x.merchant_id = m
                                                 /\ x.is_deleted = 0}}

ActiveIds(m) == ActiveIdsIn(products, m)

\* Ids of the products the remote catalog of a shop holds now.
RemoteIds(shop) ==
    {<<i>> : i \in {j \in ProductIds : ShopOf(j) = shop /\ remote[j] # None}}

\* Ids reconcile_products of caller c has fetched.
FetchedIds(c) ==
    {runs[c].all_products[k].id : k \in 1..Len(runs[c].all_products)}

\* The step in which caller c's reconcile_products runs steps 2 to 5.
ApplyStep(c) == runs[c].pc = "apply" /\ runs'[c].pc # "apply"

ShopOfRun(c) == merchants[runs[c].merchant].shop_domain

\* C1: after reconcile_products(T, mark_deleted=true) without fetch failure
\* and without concurrent events (the fetched id set is the remote id set),
\* T's ids with a clear soft-delete flag are exactly the remote ids.
C1_ActiveEqualsRemote ==
    [][\A c \in Callers :
          (ApplyStep(c) /\ runs[c].mark_deleted
              /\ FetchedIds(c) = RemoteIds(ShopOfRun(c)))
          => ActiveIdsIn(products', runs[c].merchant) = RemoteIds(ShopOfRun(c))]_vars

\* C2: reconcile_products(T, mark_deleted=false), run while the remote id set
\* is the fetched one, lists and upserts
\* remote - active as missing, lists active - remote as deleted remotely
\* without changing those rows, reports marked_deleted_count = 0, and leaves
\* the active set equal to the previous active set united with the remote set.
C2_NonDestructive ==
    [][\A c \in Callers :
          (ApplyStep(c) /\ ~runs[c].mark_deleted
              /\ FetchedIds(c) = RemoteIds(ShopOfRun(c)))
          => LET m == runs[c].merchant
                 R == FetchedIds(c)
                 A == ActiveIds(m)
             IN  /\ ret'.result.missing_in_db_product_ids = R \ A
                 /\ \A i \in R \ A :
                       \E r \in products' : r.shopify_product_id = i
                 /\ ret'.result.deleted_in_shopify_product_ids = A \ R
                 /\ \A r \in products :
                       r.shopify_product_id \in A \ R => r \in products'
                 /\ ret'.result.marked_deleted_count = 0
                 /\ ActiveIdsIn(products', runs[c].merchant) = A \cup R]_vars

\* The version of product id that caller c's reconcile_products fetched.
FetchedVersion(c, id) ==
    LET k == CHOOSE j \in 1..Len(runs[c].all_products) :
                 runs[c].all_products[j].id = id
    IN  parse_datetime(runs[c].all_products[k].updated_at)[1]

\* Row r is what upsert_product stores for the full remote product p.
IsCopyOf(r, p) ==
    LET parsed == parse_shopify_product(p)
    IN  /\ r.title = parsed.title
        /\ r.vendor = parsed.vendor
        /\ r.product_type = parsed.product_type
        /\ r.handle = parsed.handle
        /\ r.status = parsed.status
        /\ r.shopify_created_at = parsed.shopify_created_at
        /\ r.shopify_updated_at = parsed.shopify_updated_at
        /\ r.published_at = parsed.published_at
        /\ r.raw_data = p

\* C3: every id reconcile_products repairs (missing locally or out of sync)
\* has, after the repair, a row whose projected fields and verbatim payload
\* are those of the item's full remote representation.
C3_RepairStoresFullPayload ==
    [][\A c \in Callers :
          ApplyStep(c)
          => \A id \in ret'.result.missing_in_db_product_ids
                       \cup ret'.result.out_of_sync_product_ids :
                \E r \in products' :
                    /\ r.shopify_product_id = id
                    /\ IsCopyOf(r, FullProduct(id[1], FetchedVersion(c, id)))]_vars

\* C4: no write of reconcile_products replaces a stored remote version of
\* an item by an older one: the stored remote updated-at never decreases.
C4_ReconcileNeverRegresses ==
    [][\A c \in Callers :
          ApplyStep(c)
          => \A r \in products, r2 \in products' :
                (/\ r2.shopify_product_id = r.shopify_product_id
                 /\ r.shopify_updated_at # None)
                => /\ r2.shopify_updated_at # None
                   /\ r2.shopify_updated_at[1] >= r.shopify_updated_at[1]]_vars

\* C5: every item reconcile_products soft-deletes is absent from the remote
\* catalog at the moment its flag is set.
C5_SoftDeletesOnlyGoneItems ==
    [][\A c \in Callers :
          ApplyStep(c)
          => \A r \in products, r2 \in products' :
                (/\ r2.shopify_product_id = r.shopify_product_id
                 /\ r.is_deleted = 0
                 /\ r2.is_deleted = 1)
                => remote[r.shopify_product_id[1]] = None]_vars

\* C6: at most one reconcile_products call is in flight per tenant.
C6_OneReconcilePerTenant ==
    \A m \in MerchantIds :
        Cardinality({c \in Callers : InFlight(c) /\ runs[c].merchant = m}) <= 1

\* C7: the products table holds at most one row per remote product id.
C7_OneRowPerRemoteId ==
    \A r1 \in products, r2 \in products :
        r1.shopify_product_id = r2.shopify_product_id => r1 = r2

\* An id has been delivered again after its row was created: the row went
\* through the ON CONFLICT update.
C7_Witness ==
    \E r \in products : r.updated_at # None /\ r.status = <<"active">>

IsUpsertWebhookReturn(call) ==
    /\ call.op \in {"product_create_webhook", "product_update_webhook"}
    /\ call.result = 200

\* C8: a call of upsert_product (through a webhook) with the payload the
\* tenant's row already stores leaves one row for the id, with the projected
\* fields and the payload unchanged and a synced_at that is not earlier.
C8_UpsertIdempotent ==
    [][\A m \in MerchantIds :
          (/\ IsUpsertWebhookReturn(ret')
           /\ m \in ActiveMerchantByDomain(ret'.args.shop_domain)
           /\ AlreadyStored(m, ret'.args.body))
          => LET id == ret'.args.body.id
                 before == {r \in products : r.shopify_product_id = id}
                 after == {r \in products' : r.shopify_product_id = id}
             IN  /\ Cardinality(after) = 1
                 /\ \A r \in before, r2 \in after :
                       /\ IsCopyOf(r2, r.raw_data)
                       /\ r2.title = r.title
                       /\ r2.vendor = r.vendor
                       /\ r2.product_type = r.product_type
                       /\ r2.handle = r.handle
                       /\ r2.status = r.status
                       /\ r2.shopify_created_at = r.shopify_created_at
                       /\ r2.shopify_updated_at = r.shopify_updated_at
                       /\ r2.published_at = r.published_at
                       /\ r2.raw_data = r.raw_data
                       /\ r2.merchant_id = r.merchant_id
                       /\ r2.synced_at[1] >= r.synced_at[1]]_vars

\* The second of two calls with one payload has returned, later than the
\* first was stored.
C8_Witness ==
    /\ IsUpsertWebhookReturn(ret)
    /\ ret.again
    /\ \E r \in products :
          /\ r.shopify_product_id = ret.args.body.id
          /\ r.raw_data = ret.args.body
          /\ r.synced_at[1] > r.created_at[1]

\* C9: sync_products returns for every input; each item is counted once as
\* synced or failed, only the malformed items fail, and every well-formed
\* item of the list is stored, also after a failing item.
C9_BatchResilience ==
    ret.op = "sync_products"
    => LET data == ret.args.products_data
           stats == ret.result
           malformed == {k \in 1..Len(data) : Get(data[k], "id") = None}
       IN  /\ stats.synced_count + stats.failed_count = Len(data)
           /\ stats.created_count + stats.updated_count = stats.synced_count
           /\ stats.failed_count = Cardinality(malformed)
           /\ \A k \in (1..Len(data)) \ malformed :
                 \E r \in products : r.shopify_product_id = data[k].id

\* C10: when a page fetch of fetch_all_products_from_shopify fails, the
\* result carries the error and its status is 'partial' if an item had been
\* synced before and 'failed' if none had; it is never 'completed'.
C10_PageFailureStatus ==
    (ret.op = "fetch_all_products_from_shopify"
        /\ ret.result.error = <<"HTTP error">>)
    => ret.result.status =
          (IF ret.result.synced_count > 0 THEN "partial" ELSE "failed")

\* C11: when a page fetch of reconcile_products fails, reconcile returns
\* status 'failed' with an error and no row of the products table has been
\* changed by it, also when earlier pages had been fetched.
C11_FetchFailureNoSideEffects ==
    [][(ret'.op = "reconcile_products" /\ ret'.args.fetch_failed)
       => /\ ret'.result.status = "failed"
          /\ ret'.result.error # None
          /\ products' = products]_vars

\* A reconcile whose fetch failed after a full page has returned, while the
\* table holds fewer active rows than the page had products.
C11_Witness ==
    /\ ret.op = "reconcile_products"
    /\ ret.args.fetch_failed
    /\ ret.args.fetched >= limit
    /\ Cardinality(ActiveIds(ret.args.merchant)) < ret.args.fetched

\* Ids of a reconcile report's issues: missing locally or out of sync.
IssueIds(r) == r.missing_in_db_product_ids \cup r.out_of_sync_product_ids

\* C12: the status of a reconcile report is 'completed' or 'failed', and
\* whenever it is 'completed' every id listed as missing locally or out of
\* sync was upserted successfully: its row holds the fetched version and
\* synced_count counts every listed id.
C12_CompletedMeansAllFixed ==
    [][\A c \in Callers :
          ApplyStep(c)
          => LET r == ret'.result
             IN  /\ r.status \in {"completed", "failed"}
                 /\ r.status = "completed"
                    => /\ r.synced_count = Cardinality(IssueIds(r))
                       /\ \A id \in IssueIds(r) :
                             \E row \in products' :
                                /\ row.shopify_product_id = id
                                /\ row.shopify_updated_at
                                     = <<FetchedVersion(c, id)>>]_vars

\* Ids whose soft-delete flag the step sets.
NewlySoftDeleted ==
    {r.shopify_product_id : r \in
        {x \in products : /\ x.is_deleted = 0
                          /\ \E y \in products' :
                                /\ y.shopify_product_id = x.shopify_product_id
                                /\ y.is_deleted = 1}}

\* C13: a reconcile_products started by the scheduler's job (or the manual
\* trigger, which runs the same function) runs with mark_deleted = false and
\* sets no soft-delete flag; a reconcile sets the flag only when the
\* on-demand endpoint called it with mark_deleted = true.
C13_ScheduledRunsNeverMarkDeleted ==
    [][\A c \in Callers :
          ApplyStep(c)
          => /\ c # "endpoint" => ~runs[c].mark_deleted
             /\ NewlySoftDeleted # {}
                => (c = "endpoint" /\ runs[c].mark_deleted)]_vars

\* The job's reconcile has returned a report that lists an active row as
\* deleted remotely.
C13_Witness ==
    /\ ret.op = "reconcile_products"
    /\ ret.args.caller = "job"
    /\ ret.result.deleted_in_shopify > 0
    /\ ret.result.marked_deleted_count = 0
    /\ \E r \in products :
          /\ r.shopify_product_id \in ret.result.deleted_in_shopify_product_ids
          /\ r.is_deleted = 0

\* The merchants an all-merchant run has to attempt: active, with a
\* credential that decrypts.
ToAttempt ==
    SortedSeq({m \in DOMAIN merchants : /\ merchants[m].is_active = 1
                                        /\ access_token(merchants[m]) # None})

IsAllMerchantReturn(call) ==
    /\ call.op \in {"run_daily_reconciliation_for_all_merchants",
                    "trigger_manual_reconciliation"}
    /\ call.args.merchant_id = None

\* C14: an all-merchant run, whatever the reports of its merchants, has
\* attempted at its end every active merchant with a credential exactly
\* once, in order; and every run that starts terminates.
C14_AllTenantsAttempted ==
    /\ [](IsAllMerchantReturn(ret)
          => /\ Len(ret.args.attempted) = Len(ToAttempt)
             /\ \A k \in 1..Len(ToAttempt) :
                   ret.args.attempted[k].merchant = ToAttempt[k])
    /\ \A c \in {"job", "manual"} :
          (runs[c].pc # "idle") ~> (runs[c].pc = "idle")

\* An all-merchant run has ended after the first merchant's reconcile
\* failed and a later merchant was attempted.
C14_Witness ==
    /\ IsAllMerchantReturn(ret)
    /\ Len(ret.args.attempted) >= 2
    /\ ret.args.attempted[1].status = "failed"

----------------------------------------------------------------------------
(* Webhook subscription manager *)

\* C15: register_webhooks returns exactly one result per required topic,
\* in topic order, each with status success or error; a topic has an error
\* result only when its own remote call or its own local write raised, so
\* that an exception of one topic leaves the topics after it processed.
C15_OneResultPerTopic ==
    ret.op = "register_webhooks" =>
        /\ Len(ret.result) = NumTopics
        /\ \A k \in 1..NumTopics :
              /\ ret.result[k].topic = WEBHOOK_CONFIG[k].topic
              /\ ret.result[k].status \in {"success", "error"}
              /\ ret.result[k].status = "error" =>
                     ret.args.trace[k].raised \in {"remote", "local"}

\* C16: when register_webhooks finds an active local record whose remote
\* id the remote no longer knows, and the remote accepts the create, it
\* creates a new remote subscription for the topic, rewrites the remote id
\* of that same record (no row is added, the record stays active, no other
\* row changes) and returns action 'recreated' with status 'success'.
C16_SelfHealRewritesSameRecord ==
    ret.op = "register_webhooks" =>
        \A k \in 1..NumTopics :
            LET t == ret.args.trace[k]
                r == ret.result[k]
                webhook == WEBHOOK_CONFIG[k]
                old == t.db_webhook[1]
            IN  (t.db_webhook # None /\ t.seen = None /\ t.raised = "none")
                =>
                /\ t.posted
                /\ r.action = "recreated"
                /\ r.status = "success"
                /\ r.webhook_id # old.shopify_webhook_id
                /\ r.webhook_id \in 1..Len(subscriptions)
                /\ subscriptions[r.webhook_id].topic = webhook.topic
                /\ subscriptions[r.webhook_id].shop
                      = merchants[ret.args.merchant_id].shop_domain
                /\ {x.id : x \in t.after} = {x.id : x \in t.before}
                /\ \E row \in t.after :
                      /\ row.id = old.id
                      /\ row.shopify_webhook_id = r.webhook_id
                      /\ row.topic = webhook.topic
                      /\ row.store_id = ret.args.merchant_id
                      /\ row.is_active = 1
                      /\ t.after \ {row} = t.before \ {old}

\* A registration that recreated the subscription of a topic.
C16_Witness ==
    /\ ret.op = "register_webhooks"
    /\ \E k \in 1..NumTopics :
          /\ ret.args.trace[k].db_webhook # None
          /\ ret.args.trace[k].seen = None
          /\ ret.result[k].action = "recreated"

\* The topics of the subscriptions in the list a registration saw.
TopicsOf(shopify_webhooks) ==
    {shopify_webhooks[j].topic : j \in 1..Len(shopify_webhooks)}

\* C17: when register_webhooks finds no active local record for a topic and
\* the remote's list holds a subscription of the topic, the subscription is
\* adopted (a new active row of the tenant and topic carries the id of a
\* listed subscription of the topic) and no remote create is sent; a remote
\* create is sent only when the list holds no subscription of the topic.
C17_AdoptBeforeCreate ==
    ret.op = "register_webhooks" =>
        \A k \in 1..NumTopics :
            LET t == ret.args.trace[k]
                topic == WEBHOOK_CONFIG[k].topic
            IN  (t.db_webhook = None /\ t.seen # None) =>
                   IF topic \in TopicsOf(t.seen[1])
                   THEN /\ ~t.posted
                        /\ \E row \in t.after \ t.before :
                              /\ row.store_id = ret.args.merchant_id
                              /\ row.topic = topic
                              /\ row.is_active = 1
                              /\ \E j \in 1..Len(t.seen[1]) :
                                    /\ t.seen[1][j].topic = topic
                                    /\ t.seen[1][j].id
                                          = row.shopify_webhook_id
                        /\ Cardinality(t.after) = Cardinality(t.before) + 1
                   ELSE t.posted

\* A registration that adopted a subscription it found only remotely.
C17_Witness ==
    /\ ret.op = "register_webhooks"
    /\ \E k \in 1..NumTopics :
          /\ ret.args.trace[k].db_webhook = None
          /\ ret.args.trace[k].seen # None
          /\ WEBHOOK_CONFIG[k].topic \in TopicsOf(ret.args.trace[k].seen[1])
          /\ ret.result[k].status = "success"
          /\ ret.args.trace[k].after # ret.args.trace[k].before

\* The remote ids on the active rows of store m.
ActiveRemoteIds(table, m) ==
    {r.shopify_webhook_id : r \in {x \in table : x.store_id = m
                                                  /\ x.is_active = 1}}

\* C18: when sync_webhooks returns, the remote ids on the tenant's active
\* rows are exactly the ids the remote listed; deleted_count is the number
\* of rows that were active and are now inactive; discovered_count is the
\* number of rows created.
C18_SyncMatchesRemote ==
    (ret.op = "sync_webhooks" /\ ret.result.status = "success") =>
        LET m == ret.args.merchant_id
            listed == ret.args.resp.body
            before == ret.args.before
        IN  /\ ActiveRemoteIds(webhooks, m)
                  = {listed[j].id : j \in 1..Len(listed)}
            /\ ret.result.deleted_count =
                  Cardinality({r \in before :
                                  /\ r.is_active = 1
                                  /\ RowById(webhooks, r.id).is_active = 0})
            /\ ret.result.discovered_count =
                  Cardinality({r.id : r \in webhooks}
                                  \ {r.id : r \in before})

\* A sync that deactivated a row and discovered a subscription.
C18_Witness ==
    /\ ret.op = "sync_webhooks"
    /\ ret.result.status = "success"
    /\ ret.result.deleted_count > 0
    /\ ret.result.discovered_count > 0

\* C19: in every reachable state a tenant has at most one active row per
\* topic, whatever register_webhooks, sync_webhooks and delete_webhook
\* calls were made and whatever subscriptions the remote reported.
C19_OneActiveRowPerTopic ==
    \A r1, r2 \in webhooks :
        (/\ r1.store_id = r2.store_id
         /\ r1.topic = r2.topic
         /\ r1.is_active = 1
         /\ r2.is_active = 1) => r1 = r2

\* C20: delete_webhook marks the local record inactive only after the
\* remote has deleted the subscription: when it succeeds the remote no
\* longer holds the subscription, the record of that id is still in the
\* table with its active flag cleared and no other row has changed; when
\* the remote deletion fails the table is left as it was.
C20_DeleteRemoteFirst ==
    ret.op = "delete_webhook" =>
        LET webhook_id == ret.args.webhook_id
            before == ret.args.before
        IN  IF ret.result.status = "success"
            THEN /\ ret.args.resp.kind = "ok"
                 /\ webhook_id \in 1..Len(subscriptions)
                 /\ ~subscriptions[webhook_id].live
                 /\ {r.id : r \in webhooks} = {r.id : r \in before}
                 /\ \A r \in before :
                       RowById(webhooks, r.id) =
                          IF r.shopify_webhook_id = webhook_id
                          THEN [r EXCEPT !.is_active = 0]
                          ELSE r
            ELSE /\ ret.args.resp.kind # "ok"
                 /\ webhooks = before

\* A delete that succeeded on a subscription with an active local record.
C20_Witness ==
    /\ ret.op = "delete_webhook"
    /\ ret.result.status = "success"
    /\ \E r \in ret.args.before :
          /\ r.shopify_webhook_id = ret.args.webhook_id
          /\ r.is_active = 1
          /\ RowById(webhooks, r.id).is_active = 0

C22_Age(oauth_data) ==
    IF now >= oauth_data.timestamp.value
    THEN now - oauth_data.timestamp.value
    ELSE oauth_data.timestamp.value - now

\* C22: a completion whose timestamp is more than 300 seconds from the
\* clock, before or after, is answered 400 "timestamp expired" whether its
\* signature verifies or not, with no token exchange started and no
\* merchant row changed; one whose timestamp is 300 seconds away or less
\* (299 for one) is not rejected for its timestamp.
C22_TimestampWindow ==
    [][\A oauth_data \in OAuthRequests :
          (complete_oauth(oauth_data) /\ oauth_data.timestamp.digits) =>
             IF C22_Age(oauth_data) > 300
             THEN /\ ret'.result =
                        OAuthError(400, "OAuth callback timestamp expired")
                  /\ oauth' = NoOAuth
                  /\ merchants' = merchants
             ELSE \/ ret' = NoCall
                  \/ ret'.result.detail # "OAuth callback timestamp expired"]_vars

\* A callback Shopify signed 301 seconds ago is rejected while a merchant
\* holds a credential.
C22_Witness ==
    /\ ret.op = "complete_oauth"
    /\ ret.result = OAuthError(400, "OAuth callback timestamp expired")
    /\ ret.args.oauth_data \in SignedCallbacks
    /\ ret.args.received - ret.args.oauth_data.timestamp.value = 301
    /\ oauth = NoOAuth
    /\ \E m \in DOMAIN merchants : access_token(merchants[m]) # None

\* C23: a completion that passes the timestamp and signature checks for a
\* merchant whose last successful completion (the commit of its credential)
\* is less than 60 seconds old is answered 409 before the token exchange
\* and the merchant row stays as it was; at 60 seconds or more the call
\* goes on to the token exchange.
C23_DuplicateCompletion ==
    [][\A oauth_data \in SignedCallbacks :
          (/\ complete_oauth(oauth_data)
           /\ oauth_data.timestamp.digits
           /\ C22_Age(oauth_data) <= 300) =>
             \A m \in DOMAIN merchants :
                (/\ \/ merchants[m].merchant_id = oauth_data.merchant_id
                    \/ merchants[m].shop_domain = oauth_data.shop.domain
                 /\ merchants[m].access_token # None) =>
                   IF now - merchants[m].updated_at[1] < 60
                   THEN /\ ret'.result =
                              OAuthError(409, "OAuth was recently completed")
                        /\ oauth' = NoOAuth
                        /\ merchants' = merchants
                   ELSE /\ ret' = NoCall
                        /\ oauth'.pc = "exchange"]_vars

\* A second completion 59 seconds after the credential was committed is
\* answered 409.
C23_Witness ==
    /\ ret.op = "complete_oauth"
    /\ ret.result = OAuthError(409, "OAuth was recently completed")
    /\ oauth = NoOAuth
    /\ \E m \in DOMAIN merchants :
          /\ merchants[m].shop_domain = ret.args.oauth_data.shop.domain
          /\ access_token(merchants[m]) # None
          /\ ret.args.received - merchants[m].updated_at[1] = 59

\* The callback of a call passed both checks when the call arrived.
C24_Checked(args) ==
    /\ args.oauth_data.timestamp.digits
    /\ args.received - args.oauth_data.timestamp.value <= 300
    /\ args.oauth_data.timestamp.value - args.received <= 300
    /\ args.oauth_data \in SignedCallbacks

\* C24: complete_oauth checks the timestamp first (a callback failing both
\* checks gets the timestamp's error), then the signature over all the
\* parameters it received (a callback Shopify did not sign as it stands
\* gets "Invalid HMAC signature"); a call reaches the token exchange, and a
\* merchant row is written (credential stored, merchant activated), only
\* for a callback that passed both checks.
C24_CheckOrder ==
    [][/\ \A oauth_data \in OAuthRequests :
             complete_oauth(oauth_data) =>
                IF ~oauth_data.timestamp.digits
                THEN ret'.result =
                        OAuthError(400, "Invalid timestamp format")
                ELSE IF C22_Age(oauth_data) > 300
                THEN ret'.result =
                        OAuthError(400, "OAuth callback timestamp expired")
                ELSE IF oauth_data \notin SignedCallbacks
                THEN ret'.result = OAuthError(400, "Invalid HMAC signature")
                ELSE TRUE
       /\ oauth'.pc = "exchange" => C24_Checked(oauth'.args)
       /\ merchants' # merchants =>
             /\ oauth.pc = "exchange"
             /\ C24_Checked(oauth.args)
             /\ oauth'.pc = "shop_info"]_vars

\* The credential of a callback that named the shop with its scheme and
\* carried a host has just been committed.
C24_Witness ==
    /\ oauth.pc = "shop_info"
    /\ oauth.args.oauth_data.shop.scheme = "https://"
    /\ oauth.args.oauth_data.host # None
    /\ access_token(merchants[oauth.id]) # None
    /\ merchants[oauth.id].is_active = 1
    /\ merchants[oauth.id].updated_at = <<now>>

\* C25: once the token exchange of a call has answered, successfully or
\* not, the merchants table has a row for the call's merchant (the row was
\* created by the first call that passed the checks); the credential of a
\* row is NULL until an exchange succeeds and changes only when one does.
C25_TenantCreatedOnFirstAttempt ==
    [][/\ (oauth.pc = "exchange" /\ oauth'.pc # "exchange") =>
             oauth.id \in DOMAIN merchants'
       /\ \A m \in DOMAIN merchants' :
             (IF m \in DOMAIN merchants
              THEN merchants'[m].access_token # merchants[m].access_token
              ELSE merchants'[m].access_token # None) =>
                /\ oauth.pc = "exchange"
                /\ oauth.id = m
                /\ oauth'.pc = "shop_info"]_vars


\* C26: once the credential of a call is committed, whatever becomes of
\* the registration of its webhooks (a topic fails, all fail, the call to
\* register_webhooks raises), complete_oauth answers 200, the merchant is
\* active with its credential stored, the response reports the failure (the
\* error of the whole call, or an "error" result for every topic left
\* without an active row), and the initial sync is in the background tasks.
C26_RegistrationNeverFailsOnboarding ==
    [][(/\ oauth.pc \in {"shop_info", "register"}
        /\ oauth'.pc \notin {"shop_info", "register"}) =>
          /\ ret'.op = "complete_oauth"
          /\ ret'.result.status_code = 200
          /\ merchants'[oauth.id].is_active = 1
          /\ access_token(merchants'[oauth.id]) # None
          /\ oauth'.pc = "background"
          /\ ret'.result.initial_product_sync = "started"
          /\ IF oauth.pc = "shop_info"
             THEN ret'.result.webhooks_registered =
                     [error |-> "Webhook registration failed, will retry later"]
             ELSE \A k \in 1..NumTopics :
                     ActiveWebhooks(webhooks', oauth.id,
                                    WEBHOOK_CONFIG[k].topic) = {} =>
                        ret'.result.webhooks_registered[k].status = "error"]_vars


\* The access_token column of merchant m holds a text decrypt cannot open.
C27_Unusable(m) ==
    merchants[m].access_token \in
        {<<Fernet(RotatedKey, "token")>>, <<Corrupted>>}

\* C27: for a merchant whose stored credential is corrupted or sealed
\* under a rotated key, the credential reads as None, a request at an
\* endpoint that depends on get_merchant_from_header is answered 403 (not
\* a server error), the daily job never calls reconcile_products for it,
\* and the job has attempted every other active merchant when it returns.
C27_UndecryptableIsUnauthenticated ==
    /\ \A m \in DOMAIN merchants :
          C27_Unusable(m) => access_token(merchants[m]) = None
    /\ (/\ ret.op = "get_merchant_from_header"
        /\ ret.args.x_merchant_id # None
        /\ \E m \in DOMAIN merchants :
              /\ merchants[m].merchant_id = ret.args.x_merchant_id[1]
              /\ C27_Unusable(m)) =>
          ret.result = OAuthError(403, "Merchant has not completed OAuth")
    /\ InFlight("job") => ~C27_Unusable(runs["job"].merchant)
    /\ ret.op = "run_daily_reconciliation_for_all_merchants" =>
          {ret.args.attempted[k].merchant :
              k \in 1..Len(ret.args.attempted)} =
          {m \in DOMAIN merchants : ~C27_Unusable(m)}

\* The job returns having attempted merchant 3 alone: the credential of
\* merchant 1 is sealed under the rotated key, that of merchant 2 corrupted.
C27_Witness ==
    /\ ret.op = "run_daily_reconciliation_for_all_merchants"
    /\ merchants[1].access_token = <<Fernet(RotatedKey, "token")>>
    /\ merchants[2].access_token = <<Corrupted>>
    /\ Len(ret.args.attempted) = 1
    /\ ret.args.attempted[1].merchant = 3


\* C28: no step removes a row of the products table or of the webhooks
\* table: every stored remote product id and every webhook row id is still
\* stored after the step.  A step that marks a product deleted (delete
\* notification, reconcile with mark_deleted, shop/redact) changes only
\* is_deleted, status and deleted_at beside the onupdate timestamps, and a
\* step that deactivates a webhook row changes only is_active.
C28_NoRowRemoved ==
    [][/\ \A r \in products :
             \E r2 \in products' :
                /\ r2.shopify_product_id = r.shopify_product_id
                /\ r2.merchant_id = r.merchant_id
                /\ (r.is_deleted = 0 /\ r2.is_deleted = 1) =>
                      [r2 EXCEPT !.is_deleted = r.is_deleted,
                                 !.status = r.status,
                                 !.deleted_at = r.deleted_at,
                                 !.synced_at = r.synced_at,
                                 !.updated_at = r.updated_at] = r
       /\ Cardinality(products') >= Cardinality(products)
       /\ \A r \in webhooks :
             \E r2 \in webhooks' :
                /\ r2.id = r.id
                /\ r2.store_id = r.store_id
                /\ (r.is_active = 1 /\ r2.is_active = 0) =>
                      r2 = [r EXCEPT !.is_active = 0]
       /\ Cardinality(webhooks') >= Cardinality(webhooks)]_vars

\* shop/redact has run for a shop that has a product row and webhook rows:
\* the rows are all there, marked.
C28_Witness ==
    /\ ret.op = "shop_redact_webhook"
    /\ products # {}
    /\ \A r \in products : r.is_deleted = 1 /\ r.status = <<"redacted">>
    /\ Cardinality(webhooks) >= NumTopics
    /\ \A r \in webhooks : r.is_active = 0


\* C29: reschedule_job(hour, minute) on a running scheduler leaves the
\* scheduler running with its one job 'daily_reconciliation', whose rule is
\* now hour:minute UTC and whose next fire time is the first second of that
\* rule at or after the call; a run of the job in flight is not touched and
\* the endpoint answers success.
C29_RescheduleReplacesRule ==
    [][\A hour \in Hours, minute \in Minutes :
          (/\ reschedule_job_endpoint(hour, minute)
           /\ scheduler # None
           /\ scheduler[1].running) =>
             /\ scheduler' # None
             /\ scheduler'[1].running
             /\ Len(scheduler'[1].jobs) = 1
             /\ scheduler'[1].jobs[1].id = "daily_reconciliation"
             /\ scheduler'[1].jobs[1].trigger =
                   [hour |-> hour, minute |-> minute]
             /\ scheduler'[1].jobs[1].next_run_time >= now
             /\ scheduler'[1].jobs[1].next_run_time - now < 24 * 60 * 60
             /\ scheduler'[1].jobs[1].next_run_time % (24 * 60 * 60) =
                   (hour * 60 + minute) * 60
             /\ runs' = runs
             /\ ret'.result.status = "success"]_vars

\* The job was rescheduled to 03:30 while a run of it was in flight.
C29_Witness ==
    /\ ret.op = "reschedule_job"
    /\ ret.args = [hour |-> 3, minute |-> 30]
    /\ ret.result.status = "success"
    /\ runs["job"].pc # "idle"
    /\ scheduler # None
    /\ scheduler[1].jobs[1].next_run_time = now + 30 * 60

\* C30: a run of the job starts only under a running scheduler (no fire
\* after stop_scheduler); stop_scheduler, which runs without yielding to
\* the event loop, returns with no run of the job left unfinished; and
\* while no scheduler exists the status is running = false with no jobs.
C30_GracefulShutdown ==
    [][/\ (runs["job"].pc = "idle" /\ runs'["job"].pc # "idle") =>
             (scheduler # None /\ scheduler[1].running)
       /\ ret'.op = "stop_scheduler" => ret'.args.pending = None
       /\ (ret'.op = "get_scheduler_status" /\ scheduler' = None) =>
             ret'.result = [running |-> FALSE, jobs |-> <<>>]]_vars


\* The seconds between the version of product id that caller c fetched and
\* the remote updated-at its active row stores.
C31_Difference(c, id) ==
    LET row == CHOOSE r \in products :
                  /\ r.shopify_product_id = id
                  /\ r.merchant_id = runs[c].merchant
        stored == row.shopify_updated_at[1]
        fetched == FetchedVersion(c, id)
    IN  IF fetched >= stored THEN fetched - stored ELSE stored - fetched

\* C31: when reconcile_products runs its steps 2 to 5, the ids it reports
\* out of sync are exactly the ids both fetched and locally active whose
\* fetched updated-at and stored remote updated-at differ by more than one
\* second (a difference of exactly one second is in sync); each of them is
\* upserted again (its row carries the fetched version, written now) and
\* the rows of the other ids of the intersection stay as they were.
C31_OutOfSyncThreshold ==
    [][\A c \in Callers :
          ApplyStep(c) =>
             LET both == FetchedIds(c) \cap ActiveIds(runs[c].merchant)
                 flagged == {id \in both : C31_Difference(c, id) > 1}
             IN  /\ ret'.result.out_of_sync_product_ids = flagged
                 /\ ret'.result.out_of_sync = Cardinality(flagged)
                 /\ \A id \in flagged :
                       \E r \in products' :
                          /\ r.shopify_product_id = id
                          /\ r.shopify_updated_at = <<FetchedVersion(c, id)>>
                          /\ r.synced_at = <<now>>
                 /\ \A r \in products :
                       r.shopify_product_id \in both \ flagged =>
                          r \in products']_vars

\* A reconcile returned with nothing out of sync while the active row of a
\* remote product stores an updated-at exactly one second older.
C31_Witness ==
    /\ ret.op = "reconcile_products"
    /\ ret.result.status = "completed"
    /\ ret.result.out_of_sync = 0
    /\ ret.result.missing_in_db = 0
    /\ ret.args.fetched >= 1
    /\ \E r \in products :
          /\ r.is_deleted = 0
          /\ r.merchant_id = ret.args.merchant
          /\ remote[r.shopify_product_id[1]] # None
          /\ remote[r.shopify_product_id[1]][1] - r.shopify_updated_at[1] = 1


\* C32: in both fetch loops a further page is requested only after a full
\* page (limit products), with a since_id strictly greater than that of
\* the request before; a page that is empty or shorter than limit, or a
\* fetch error, ends the loop; and every fetch that has started ends.
C32_FetchLoopsTerminate ==
    /\ [][/\ (bulk.pc = "response" /\ bulk'.pc = "request") =>
                /\ bulk.resp.kind = "ok"
                /\ Len(bulk.resp.products) = limit
                /\ bulk'.since_id > bulk.since_id
          /\ (/\ bulk.pc = "response"
              /\ bulk' # bulk
              /\ \/ bulk.resp.kind # "ok"
                 \/ Len(bulk.resp.products) < limit) => bulk'.pc = "idle"
          /\ (/\ runs["endpoint"].pc = "fetch"
              /\ runs'["endpoint"] # runs["endpoint"]
              /\ runs'["endpoint"].pc = "fetch") =>
                /\ Len(runs'["endpoint"].all_products) =
                      Len(runs["endpoint"].all_products) + limit
                /\ runs'["endpoint"].since_id > runs["endpoint"].since_id]_vars
    /\ (bulk.pc # "idle") ~> (bulk.pc = "idle")
    /\ (runs["endpoint"].pc = "fetch") ~> (runs["endpoint"].pc # "fetch")

\* The second page of a force-resync is requested behind the last id of a
\* full first page.
C32_Witness ==
    /\ bulk.pc = "request"
    /\ bulk.since_id = limit
    /\ bulk.total_stats.pages_fetched = 1
    /\ bulk.total_stats.total_products = limit


\* C33: a soft-deleted row stays soft-deleted under every upsert of its
\* remote id: after a product create/update notification, a bulk sync, a
\* reconcile or a force-resync the row still has its deletion flag and its
\* deletion timestamp.
C33_DeletionAbsorbing ==
    [][\A r \in products : r.is_deleted = 1 =>
          \E r2 \in products' :
              /\ r2.shopify_product_id = r.shopify_product_id
              /\ r2.merchant_id = r.merchant_id
              /\ r2.is_deleted = 1
              /\ \/ r2.deleted_at = r.deleted_at
                 \/ ret'.op = "product_delete_webhook"]_vars

\* A product update notification was handled for an id whose row is
\* soft-deleted: the row has the notification's content and the flag.
C33_Witness ==
    /\ ret.op = "product_update_webhook"
    /\ ret.result = 200
    /\ \E r \in products :
          /\ "id" \in DOMAIN ret.args.body
          /\ ret.args.body.id = r.shopify_product_id
          /\ r.is_deleted = 1
          /\ r.deleted_at # None
          /\ r.updated_at # None
          /\ r.deleted_at[1] <= r.updated_at[1]
          /\ r.status # <<"deleted">>


\* The report of reconcile_products(T, mark_deleted=true) run again right
\* after caller c's run, on the same fetched catalog.
C34_SecondReport(c) ==
    Reconcile(products', runs[c].merchant, runs[c].all_products, TRUE,
              now').results

\* C34: when reconcile_products(T, mark_deleted=true) returns 'completed'
\* and the remote catalog is the one it fetched, the same run made again
\* at once reports no missing, no remotely deleted and no out-of-sync
\* item and a synced count of zero.
C34_SecondRunClean ==
    [][\A c \in Callers :
          (/\ ApplyStep(c)
           /\ runs[c].mark_deleted
           /\ ~runs[c].fetch_failed
           /\ ret'.result.status = "completed"
           /\ runs[c].all_products =
                 RemotePage(ShopOfRun(c), 0, NumProducts + 1, ReconcileFields))
          => /\ C34_SecondReport(c).missing_in_db = 0
             /\ C34_SecondReport(c).deleted_in_shopify = 0
             /\ C34_SecondReport(c).out_of_sync = 0
             /\ C34_SecondReport(c).synced_count = 0]_vars


\* The live subscriptions of a shop for a topic, in the list subs.
C35_LiveFor(subs, shop, topic) ==
    {i \in 1..Len(subs) :
        subs[i].live /\ subs[i].shop = shop /\ subs[i].topic = topic}

\* The remote holds at most one subscription per shop and required topic.
C35_AtMostOne(subs) ==
    \A m \in MerchantIds, k \in 1..NumTopics :
        Cardinality(C35_LiveFor(subs, merchants[m].shop_domain,
                                WEBHOOK_CONFIG[k].topic)) <= 1

\* C35: a request of register_webhooks that the remote serves while it
\* holds at most one subscription per required topic leaves it with at
\* most one subscription per required topic.
C35_OneSubscriptionPerTopic ==
    [][(/\ calls["register"].pc = "request"
        /\ calls'["register"].pc = "response"
        /\ C35_AtMostOne(subscriptions))
       => C35_AtMostOne(subscriptions')]_vars


\* C36: sync_webhooks and register_webhooks insert a row for a remote
\* subscription id only when no row of the table carries it: a
\* sync_webhooks call whose list request succeeded returns its counts,
\* and no topic of a register_webhooks run fails at the database.
C36_NoUniqueViolation ==
    /\ (ret.op = "sync_webhooks" /\ ret.args.resp.kind = "ok")
          => ret.result.status = "success"
    /\ ret.op = "register_webhooks"
          => \A j \in DOMAIN ret.args.trace :
                ret.args.trace[j].raised \notin {"local", "session"}


\* The product notification handlers.
C37_ProductHandlers ==
    {"product_create_webhook", "product_update_webhook",
     "product_delete_webhook"}

C38_DeletionFor(m) ==
    \/ /\ ret'.op \in {"product_delete_webhook", "shop_redact_webhook"}
       /\ ret'.args.shop_domain = merchants[m].shop_domain
    \/ /\ ret'.op = "reconcile_products"
       /\ ret'.args.merchant = m
       /\ ret'.args.mark_deleted

\* C38: a product delete notification, reconcile_products with
\* mark_deleted and shop/redact for one tenant change no row of products
\* and no row of webhooks that another tenant owns.
C38_DeletionStaysInTenant ==
    [][\A m \in DOMAIN merchants : C38_DeletionFor(m) =>
          /\ {r \in products' : r.merchant_id # m} =
                {r \in products : r.merchant_id # m}
          /\ {r \in webhooks' : r.store_id # m} =
                {r \in webhooks : r.store_id # m}]_vars

\* shop/redact was handled for one tenant that had rows, while another
\* tenant has an active product row and an active subscription row.
C38_Witness ==
    /\ ret.op = "shop_redact_webhook"
    /\ \E m, o \in DOMAIN merchants :
          /\ m # o
          /\ merchants[m].shop_domain = ret.args.shop_domain
          /\ merchants[m].is_active = 0
          /\ \E r \in products : r.merchant_id = m /\ r.status = <<"redacted">>
          /\ \E r \in webhooks : r.store_id = m /\ r.is_active = 0
          /\ \E r \in products : r.merchant_id = o /\ r.is_deleted = 0
          /\ \E r \in webhooks : r.store_id = o /\ r.is_active = 1


\* The fields of a reconciliation report.
C39_ReportFields == DOMAIN InitialResults

\* C39: trigger_manual_reconciliation returns status 'completed' whatever
\* the awaited run found (a report with status 'failed', or a merchant it
\* skipped), and what it returns carries no field of a reconciliation
\* report beside the status.
C39_ManualAlwaysCompleted ==
    ret.op = "trigger_manual_reconciliation" =>
        /\ ret.result.status = "completed"
        /\ (DOMAIN ret.result) \cap C39_ReportFields \subseteq {"status"}

\* The trigger for one merchant returned after that merchant's
\* reconcile_products reported 'failed'.
C39_Witness ==
    /\ ret.op = "trigger_manual_reconciliation"
    /\ ret.args.merchant_id # None
    /\ Len(ret.args.attempted) = 1
    /\ ret.args.attempted[1].merchant = ret.args.merchant_id[1]
    /\ ret.args.attempted[1].status = "failed"
    /\ ret.result.status = "completed"


\* C40: the module global is None or one scheduler, which is running and
\* holds exactly one job, 'daily_reconciliation'; and start_scheduler
\* called while a scheduler exists leaves it as it is, with its job and
\* the rule the job was rescheduled to.
C40_OneSchedulerOneJob ==
    /\ [](scheduler # None =>
             /\ Len(scheduler) = 1
             /\ scheduler[1].running
             /\ Len(scheduler[1].jobs) = 1
             /\ scheduler[1].jobs[1].id = "daily_reconciliation")
    /\ [][(ret'.op = "start_scheduler" /\ scheduler # None)
             => scheduler' = scheduler]_vars

\* start_scheduler has returned a scheduler whose job keeps the rule and
\* the fire time it was rescheduled to.
C40_Witness ==
    /\ ret.op = "start_scheduler"
    /\ scheduler # None
    /\ Len(scheduler[1].jobs) = 1
    /\ scheduler[1].jobs[1].trigger = CronTrigger(3, 30)
    /\ scheduler[1].jobs[1].next_run_time =
          get_next_fire_time(CronTrigger(3, 30), None, now)


====
